---- MODULE Spec2Model ----
(***************************************************************************)
(* Benchmark instrumentation pipeline of tabarena-cuml-poc:                *)
(*   scripts/benchmark_timer.py  BenchmarkTimer (time, record_total_time, *)
(*                               to_df, to_sql)                            *)
(*   scripts/benchmark_db.py     _save_dataframe_with_schema_evolution,    *)
(*                               load_benchmark_runs/timings               *)
(*   scripts/show_results.py     info, results, timings, speedup           *)
(*   scripts/show_profile.py     lookup_profile_from_run_id                *)
(*                                                                         *)
(* Representation.  A Python dict is a function from key strings to        *)
(* values.  Python None in a string-typed slot is the value None.  A       *)
(* DataFrame is [cols, rows]: cols the set of column names, rows a         *)
(* sequence of functions whose domain is the set of columns holding a      *)
(* non-null cell (a null cell is a column outside the row's domain).  An   *)
(* SQLite table has in addition type, the declared type of each column.    *)
(* A cell is a boolean, an integer, a float (the fraction [num, den]) or a *)
(* text; text produced by json.dumps is [json |-> value].  The conversions *)
(* of pandas and SQLite between these types are part of the model.         *)
(***************************************************************************)
EXTENDS Integers, Sequences, FiniteSets, TLC

VARIABLES
    timer,    \* the BenchmarkTimer object: its dataclass fields
    scopes,   \* stack of open time() generator frames, innermost last
    clock,    \* the value the next perf_counter_ns() read returns
    exc,      \* TRUE while an exception raised in a scope body is in flight
    db,       \* the SQLite database: table name -> [cols, rows, type]
    written,  \* history: table name -> the rows every successful append wrote
    out,      \* what the last operation returned or printed
    procs     \* process -> where it is in its call and its locals

timerVars == <<timer, scopes, clock, exc>>
vars == <<timer, scopes, clock, exc, db, written, out, procs>>

(***************************************************************************)
(* Bounds of the exploration.                                              *)
(***************************************************************************)
MaxClock == 2
MaxTimings == 2
MaxDepth == 2

None == "None"
EmptyDict == [k \in {} |-> None]

\* d1.update(d2) on a copy of d1: keys of d2 win.
DictUpdate(d1, d2) == d2 @@ d1

Min(a, b) == IF a <= b THEN a ELSE b

(***************************************************************************)
(* benchmark_timer.py                                                      *)
(***************************************************************************)
\* perf_counter_ns() counts nanoseconds; 10 s of nanoseconds does not fit the
\* checker's integers, so one unit of clock (and of time_ns) stands for half
\* a second: time_ms = time_ns / 1e6 becomes time_ns * 500 and
\* time_s = time_ns / 1e9 becomes time_ns / 2.
MsPerUnit == 500
UnitsPerS == 2

RECURSIVE GCD(_, _)
GCD(a, b) == IF b = 0 THEN a ELSE GCD(b, a % b)

\* A float as a fraction in lowest terms; x/0 is inf (1/0) and 0/0 is NaN (0/0).
Float(n, d) ==
    LET g == GCD(n, d)
    IN IF g = 0 THEN [num |-> 0, den |-> 0] ELSE [num |-> n \div g, den |-> d \div g]

NaN == [num |-> 0, den |-> 0]
IsNaN(x) == x = NaN
FloatLess(x, y) == x.num * y.den < y.num * x.den
FloatAvg(x, y) == Float(x.num * y.den + y.num * x.den, 2 * x.den * y.den)
FloatDiv(x, y) == Float(x.num * y.den, x.den * y.num)

_with_prefix(prefix, mapping) ==
    [pk \in {prefix \o k : k \in DOMAIN mapping} |->
        mapping[CHOOSE k \in DOMAIN mapping : prefix \o k = pk]]

\* Keys whose values are Python lists (the only non-primitive values drawn).
ListKeys == {"stage_metadata.tags"}

_serialize_for_sqlite(key, value) ==
    IF key \in ListKeys THEN [json |-> value] ELSE value

Stages == {"model_fit", "total"}
DefaultMetadatas == {EmptyDict, [num_gpus |-> 0, tags |-> <<"a", "b">>]}
CallMetadatas == {EmptyDict, [num_gpus |-> 2]}
RunIds == {"ab12", "ab99", "cd00"}
Contexts == {("cuda.cuda_device_count" :> 2) @@ ("cuda.cuda_version" :> None)}

\* The record one timing measurement appends (lines 106-113 and 118-124).
TimingRecord(stage, elapsed_ns, now, stage_metadata) ==
    [stage |-> stage,
     time_ns |-> elapsed_ns,
     time_ms |-> Float(elapsed_ns * MsPerUnit, 1),
     time_s |-> Float(elapsed_ns, UnitsPerS),
     timestamp |-> now]
    @@ _with_prefix("stage_metadata.", stage_metadata)

\* The frame with the merge reversed: the timer's defaults win a collision.
TimeFrame_DefaultsWin(self, stage, metadata, now) ==
    [stage |-> stage,
     stage_metadata |-> IF metadata # EmptyDict
                        THEN DictUpdate(metadata, self.metadata)
                        ELSE self.metadata,
     start |-> now]

\* The generator frame of time() up to its yield.
TimeFrame(self, stage, metadata, now) ==
    [stage |-> stage,
     stage_metadata |-> IF metadata # EmptyDict
                        THEN DictUpdate(self.metadata, metadata)
                        ELSE self.metadata,
     start |-> now]

\* The scope's time with the time of the records made since it opened taken
\* off (a parent that excludes its children).
TimeFinally_MinusNested(self, frame, now, raised) ==
    LET inner == SelectSeq(self.timings,
                           LAMBDA r : r.timestamp - r.time_ns >= frame.start)
        spent == IF inner = <<>> THEN 0 ELSE inner[Len(inner)].time_ns
    IN Append(self.timings,
              TimingRecord(frame.stage, now - frame.start - spent, now,
                           frame.stage_metadata))

\* try: yield / finally: append.  The timings list after the scope closes,
\* whether the body completed (raised = FALSE) or raised (raised = TRUE).
TimeFinally_OnlyOnSuccess(self, frame, now, raised) ==
    IF raised
    THEN self.timings
    ELSE Append(self.timings,
                TimingRecord(frame.stage, now - frame.start, now, frame.stage_metadata))

TimeFinally(self, frame, now, raised) ==
    Append(self.timings,
           TimingRecord(frame.stage, now - frame.start, now, frame.stage_metadata))

\* The total measured from the latest record instead of from construction.
record_total_time_SinceLast(self, now) ==
    Append(self.timings,
           TimingRecord("total",
                        IF self.timings = <<>> THEN now - self._start_time
                        ELSE now - self.timings[Len(self.timings)].timestamp,
                        now, EmptyDict))

record_total_time(self, now) ==
    Append(self.timings,
           TimingRecord("total", now - self._start_time, now, EmptyDict))

\* The Python type of a cell: an integer, a boolean, a float (a fraction
\* record) or a string.  Serialized JSON ([json |-> ...]) is a string, and so
\* is the ISO timestamp, which the model writes as the reading of the clock.
StrKeys == {"timestamp"}
Digits == {"0", "1", "2", "3", "4", "5", "6", "7", "8", "9"}

TypeOf(key, value) ==
    LET text == ToString(value)
    IN IF key \in StrKeys THEN "str"
       ELSE IF SubSeq(text, 1, 1) \in Digits THEN "int"
       ELSE IF text \in {"TRUE", "FALSE"} THEN "bool"
       ELSE IF Len(text) >= 5 /\ SubSeq(text, 1, 5) \in {"[num ", "[den "} THEN "float"
       ELSE "str"

\* A str cell that is plain text (not serialized JSON, not a timestamp).
IsText(key, value) == key \notin StrKeys /\ SubSeq(ToString(value), 1, 1) = "\""

\* The decimal text of a float as Python and SQLite write it ('0.0', '2.5');
\* the floats the tables hold are whole or halves.
FloatText(x) ==
    ToString(x.num \div x.den) \o "." \o ToString(((x.num % x.den) * 10) \div x.den)

\* Texts that read as a number, and the number: digits, or digits "." digits.
IsDigits(str) == Len(str) > 0 /\ \A i \in 1 .. Len(str) : SubSeq(str, i, i) \in Digits

RECURSIVE ParseInt(_)
ParseInt(str) ==
    IF str = "" THEN 0
    ELSE 10 * ParseInt(SubSeq(str, 1, Len(str) - 1))
         + (CHOOSE n \in 0 .. 9 : ToString(n) = SubSeq(str, Len(str), Len(str)))

RECURSIVE Pow10(_)
Pow10(k) == IF k = 0 THEN 1 ELSE 10 * Pow10(k - 1)

PointAt(str) ==
    {i \in 2 .. Len(str) - 1 :
        /\ SubSeq(str, i, i) = "."
        /\ IsDigits(SubSeq(str, 1, i - 1))
        /\ IsDigits(SubSeq(str, i + 1, Len(str)))}

LooksNumeric(key, value) ==
    IsText(key, value) /\ (IsDigits(value) \/ PointAt(value) # {})

NumberOfText(str) ==
    IF IsDigits(str) THEN ParseInt(str)
    ELSE LET i == CHOOSE p \in PointAt(str) : TRUE
             frac == SubSeq(str, i + 1, Len(str))
         IN Float(ParseInt(SubSeq(str, 1, i - 1)) * Pow10(Len(frac)) + ParseInt(frac),
                  Pow10(Len(frac)))

\* sqlite3 binds a Python bool as the integer 1 or 0.
Bound(key, value) ==
    IF TypeOf(key, value) = "bool" THEN (IF value THEN 1 ELSE 0) ELSE value

\* A number (int, float or bool) as a float, and Python's comparison of
\* numbers, which does not look at their type: 2 == 2.0 and True == 1.
AsFloat(value) ==
    LET v == Bound("", value)
    IN IF TypeOf("", v) = "int" THEN Float(v, 1) ELSE v

NumEq(x, y) ==
    /\ TypeOf("", x) # "str"
    /\ TypeOf("", y) # "str"
    /\ AsFloat(x) = AsFloat(y)

NumLess(x, y) == FloatLess(AsFloat(x), AsFloat(y))

\* The types of the non-null cells of column c.
Kinds(rows, c) ==
    {TypeOf(c, rows[i][c]) : i \in {j \in DOMAIN rows : c \in DOMAIN rows[j]}}

HasNull(rows, c) == \E i \in DOMAIN rows : c \notin DOMAIN rows[i]

\* lib.maybe_convert_objects, which pd.DataFrame(list of dicts) and
\* pd.read_sql apply to every column: a column whose non-null cells are all
\* integers or floats becomes float64 when it has a null cell or a float, and
\* its integers become floats (11 becomes 11.0); a column with a boolean or
\* a string stays as it is.
MaybeConvertObjects(cols, rows) ==
    LET floats == {c \in cols :
                      /\ Kinds(rows, c) # {}
                      /\ Kinds(rows, c) \subseteq {"int", "float"}
                      /\ "float" \in Kinds(rows, c) \/ HasNull(rows, c)}
    IN [i \in DOMAIN rows |->
          [c \in DOMAIN rows[i] |->
              IF c \in floats /\ TypeOf(c, rows[i][c]) = "int"
              THEN Float(rows[i][c], 1) ELSE rows[i][c]]]

\* Keys that can hold Python None (string-typed slots).
NoneableKeys == {"cuda.cuda_version", "datasets"}
IsNone(key, value) == key \in NoneableKeys /\ value = None

Restrict(f, S) == [k \in S |-> f[k]]

\* pd.DataFrame(list of dicts): the columns are the union of the keys, a key
\* that is missing or None in a dict is a null cell, and every column is
\* converted by lib.maybe_convert_objects.
DataFrame(table) ==
    LET columns == UNION {DOMAIN table[i] : i \in DOMAIN table}
    IN [cols |-> columns,
        rows |-> MaybeConvertObjects(columns,
                     [i \in DOMAIN table |->
                         Restrict(table[i],
                                  {k \in DOMAIN table[i] : ~IsNone(k, table[i][k])})])]

EmptyDataFrame == [cols |-> {}, rows |-> <<>>]

\* The rows to_df builds from a copy of self.timings (lines 136-142).
ToDfTable(self) ==
    [i \in DOMAIN self.timings |->
        LET row == DictUpdate(
                       DictUpdate(self.timings[i],
                                  [experiment_name |-> self.experiment_name,
                                   run_id |-> self.run_id]),
                       self.context)
        IN [k \in DOMAIN row |-> _serialize_for_sqlite(k, row[k])]]

\* to_df without the deepcopy: the loop writes into self.timings itself.
to_df_NoCopy(self) ==
    [df |-> DataFrame(ToDfTable(self)),
     self |-> [self EXCEPT !.timings = ToDfTable(self)]]

\* to_df: the DataFrame returned and the timer the call leaves behind.
to_df(self) ==
    [df |-> DataFrame(ToDfTable(self)),
     self |-> self]

\* BenchmarkTimer(experiment_name, metadata, run_id) after __post_init__.
NewTimer(experiment_name, metadata, run_id, context, now) ==
    [experiment_name |-> experiment_name,
     metadata |-> metadata,
     run_id |-> run_id,
     context |-> context,
     timings |-> <<>>,
     _start_time |-> now]

(***************************************************************************)
(* The store: pandas to_sql / read_sql / concat on one SQLite connection,  *)
(* and the types of the columns they create.                               *)
(***************************************************************************)
EmptyDb == [t \in {} |-> EmptyDataFrame]

NoError == ""
ErrNoColumn == "table has no column named"
ErrLocked == "database is locked"
Faults == {NoError, ErrLocked}

\* A cell of the frame holds a value sqlite3 cannot bind (an object that is no
\* int, float, str, bytes or None, or an int beyond 64 bits): the INSERT
\* compiles and then fails with ProgrammingError / OverflowError, which is no
\* OperationalError.
ErrBinding == "Error binding parameter"

\* "has no column" in str(error)
HasNoColumn(error) == error \in {ErrNoColumn}

\* The error of INSERT INTO table with the columns of df: sqlite3 compiles the
\* statement first, and a column the table lacks is an OperationalError.
InsertError(table, df) ==
    IF df.cols \subseteq table.cols THEN NoError ELSE ErrNoColumn

\* The dtype of column c of a frame: int64 and bool hold no null, float64
\* holds floats and nulls, everything else is object; a frame without rows
\* has object columns.
Dtype(df, c) ==
    LET kinds == Kinds(df.rows, c)
    IN IF c \notin df.cols THEN "absent"
       ELSE IF kinds = {"int"} /\ ~HasNull(df.rows, c) THEN "int64"
       ELSE IF kinds = {"bool"} /\ ~HasNull(df.rows, c) THEN "bool"
       ELSE IF kinds = {"float"} THEN "float64"
       ELSE "object"

\* pandas SQLiteTable._sql_type_name over lib.infer_dtype(col, skipna=True):
\* "integer" and "boolean" are declared INTEGER, "floating" REAL, and
\* everything else TEXT: a column with no non-null cell ("empty"), strings,
\* and booleans or integers mixed with other numbers ("mixed",
\* "mixed-integer", "mixed-integer-float").
_sql_type_name(df, c) ==
    LET kinds == Kinds(df.rows, c)
    IN IF kinds = {"int"} \/ kinds = {"bool"} THEN "INTEGER"
       ELSE IF kinds = {"float"} THEN "REAL"
       ELSE "TEXT"

\* SQLite's column affinity on the value bound: a TEXT column stores a
\* number as its text (1 as '1', 0.0 as '0.0'); an INTEGER column stores a
\* text that reads as a number as that number and a whole float as an
\* integer; a REAL column stores an integer, or a text that reads as a
\* number, as a float.
StoreCell(affinity, key, value) ==
    LET v == Bound(key, value)
        n == IF LooksNumeric(key, v) THEN NumberOfText(v) ELSE v
    IN IF affinity = "TEXT"
       THEN (IF TypeOf(key, v) = "int" THEN ToString(v)
             ELSE IF TypeOf(key, v) = "float" THEN FloatText(v)
             ELSE v)
       ELSE IF affinity = "INTEGER"
       THEN (IF TypeOf(key, n) = "float" /\ n.den = 1 THEN n.num ELSE n)
       ELSE (IF TypeOf(key, n) = "int" THEN Float(n, 1) ELSE n)

StoreRow(row, type) == [c \in DOMAIN row |-> StoreCell(type[c], c, row[c])]

\* CREATE TABLE from the frame (pandas SQLiteTable._execute_create).
ExecuteCreate(df) ==
    [cols |-> df.cols, rows |-> <<>>, type |-> [c \in df.cols |-> _sql_type_name(df, c)]]

\* INSERT INTO table (the frame's columns) VALUES ..., for every row.
ExecuteInsert(tbl, df) ==
    [tbl EXCEPT !.rows = @ \o [i \in DOMAIN df.rows |-> StoreRow(df.rows[i], tbl.type)]]

\* The SELECT cut to the first row of the table.
ReadSqlAll_Head(conn, table) ==
    [cols |-> conn[table].cols,
     rows |-> MaybeConvertObjects(conn[table].cols,
                  SubSeq(conn[table].rows, 1, IF Len(conn[table].rows) > 0 THEN 1 ELSE 0))]

\* pd.read_sql("SELECT * FROM table", conn): the cells as they are stored,
\* the columns converted as DataFrame.from_records converts them (an INTEGER
\* column with a NULL comes back as floats).
ReadSqlAll(conn, table) ==
    [cols |-> conn[table].cols,
     rows |-> MaybeConvertObjects(conn[table].cols, conn[table].rows)]

\* pd.concat with the existing rows dropped.
Concat_NewOnly(df_existing, df) == df

\* pd.concat([df_existing, df], ignore_index=True, sort=False): outer union
\* of the columns, the rows of the first frame then those of the second.  The
\* dtype of a column is the common type of the two: an int64 column that the
\* other frame lacks, or has as float64, becomes float64 and its integers
\* floats; bool with a number, and anything with object, is object and keeps
\* its cells.
Concat(df_existing, df) ==
    LET numeric == {"absent", "int64", "float64"}
        floats == {c \in df_existing.cols \cup df.cols :
                      /\ Dtype(df_existing, c) \in numeric
                      /\ Dtype(df, c) \in numeric
                      /\ <<Dtype(df_existing, c), Dtype(df, c)>> # <<"int64", "int64">>}
        rows == df_existing.rows \o df.rows
    IN [cols |-> df_existing.cols \cup df.cols,
        rows |-> [i \in DOMAIN rows |->
                    [c \in DOMAIN rows[i] |->
                        IF c \in floats /\ TypeOf(c, rows[i][c]) = "int"
                        THEN Float(rows[i][c], 1) ELSE rows[i][c]]]]

\* if len(df) == 0: return, the guard of both appends, and the appends
\* without it.
NothingToStore_Never(df) == FALSE

NothingToStore(df) == Len(df.rows) = 0

ErrNoTable == "no such table"
ErrNoSuchColumn == "no such column"

\* SELECT * FROM table WHERE col1 = ? AND ...: filter maps columns to the
\* values asked for.  pandas raises DatabaseError when the statement fails:
\* the database is locked by another connection (fault), or the table or a
\* column of the WHERE clause does not exist.
ReadSqlWhere(conn, table, filter, fault) ==
    IF fault # NoError THEN [df |-> EmptyDataFrame, error |-> fault]
    ELSE IF table \notin DOMAIN conn THEN [df |-> EmptyDataFrame, error |-> ErrNoTable]
    ELSE IF ~(DOMAIN filter \subseteq conn[table].cols)
    THEN [df |-> EmptyDataFrame, error |-> ErrNoSuchColumn]
    ELSE [df |-> [cols |-> conn[table].cols,
                  rows |-> MaybeConvertObjects(conn[table].cols,
                               SelectSeq(conn[table].rows,
                                   LAMBDA row : \A c \in DOMAIN filter :
                                       c \in DOMAIN row /\ row[c] = filter[c]))],
          error |-> NoError]

\* The WHERE clause the loaders build: a filter argument that is None or ""
\* adds no condition.
FilterOf(args) == Restrict(args, {c \in DOMAIN args : args[c] \notin {None, ""}})

\* A loader without its except clause.
Load_NoExcept(conn, table, args, fault) ==
    LET r == ReadSqlWhere(conn, table, FilterOf(args), fault)
    IN [df |-> r.df, raised |-> r.error # NoError, db |-> conn]

\* try: return pd.read_sql(...) / except pd.io.sql.DatabaseError: return
\* pd.DataFrame(): whatever made the SELECT fail, a locked database
\* included, the caller gets an empty frame and no error.
Load(conn, table, args, fault) ==
    LET r == ReadSqlWhere(conn, table, FilterOf(args), fault)
    IN [df |-> IF r.error # NoError THEN EmptyDataFrame ELSE r.df,
        raised |-> FALSE,
        db |-> conn]

load_benchmark_runs(conn, experiment_name, fault) ==
    Load(conn, "benchmark_runs", [experiment_name |-> experiment_name], fault)

load_benchmark_timings(conn, run_id, experiment_name, fault) ==
    Load(conn, "benchmark_timings",
         [run_id |-> run_id, experiment_name |-> experiment_name], fault)

(***************************************************************************)
(* benchmark_db.py: save_experiment_results                                *)
(***************************************************************************)
\* json.dumps of a dataset list, on the lists the model draws.
JsonDumpsList(datasets) ==
    CASE datasets = <<"anneal">> -> "[\"anneal\"]"
      [] datasets = <<"credit-g">> -> "[\"credit-g\"]"
      [] datasets = <<"anneal", "credit-g">> -> "[\"anneal\", \"credit-g\"]"

\* Lines 93-112: the summary row, before it becomes a one-row DataFrame.
RunSummary(self, results, datasets) ==
    LET base == DictUpdate([run_id |-> self.run_id,
                            experiment_name |-> self.experiment_name,
                            datasets |-> IF datasets # <<>>
                                         THEN JsonDumpsList(datasets) ELSE None,
                            results_json |-> [json |-> results]],
                           self.context)
        df_timings == to_df(self).df
        total_row == SelectSeq(df_timings.rows, LAMBDA r : r.stage = "total")
        summary == IF Len(df_timings.rows) > 0 /\ Len(total_row) > 0
                   THEN DictUpdate(base, [total_time_s |-> total_row[1].time_s,
                                          total_time_ms |-> total_row[1].time_ms])
                   ELSE base
    IN [k \in DOMAIN summary |-> _serialize_for_sqlite(k, summary[k])]

(***************************************************************************)
(* show_results.py and show_profile.py                                     *)
(***************************************************************************)
HasCol(df, c) == c \in df.cols
IsNull(row, c) == c \notin DOMAIN row
Empty(df) == Len(df.rows) = 0 \/ df.cols = {}

\* run_id.startswith(prefix), on the identifiers the model draws: s starts
\* with prefix iff prefix followed by some tail of an identifier is s.
IdTails == {"", "2", "12", "b12", "ab12", "9", "99", "b99", "ab99",
            "0", "00", "d00", "cd00", "7", "77", "b77", "ab77"}
StartsWith(str, prefix) == \E tail \in IdTails : prefix \o tail = str

\* df[df["run_id"].str.startswith(run_id)]: a null run_id does not match.
FilterPrefix(df, run_id) ==
    SelectSeq(df.rows, LAMBDA r : ~IsNull(r, "run_id") /\ StartsWith(r.run_id, run_id))

RunIdList(rows) == [i \in DOMAIN rows |-> rows[i].run_id]

\* The rows a command displays: the selected columns that exist.
Project(rows, cols) ==
    [i \in DOMAIN rows |-> Restrict(rows[i], DOMAIN rows[i] \cap cols)]

Reply(op, arg, kind, ids, shown) ==
    [op |-> op, arg |-> arg, kind |-> kind, ids |-> ids, shown |-> shown]

\* Columns of the model's context in a category (k.startswith(category + ".")).
KeyTails == {"cuda_device_count", "cuda_version"}
InCategory(k, category) == \E tail \in KeyTails : (category \o "." \o tail) = k

\* info RUN_ID [--category C]; fault is what the load of the command meets.
info(conn, fault, run_id, category) ==
    LET df == load_benchmark_runs(conn, None, fault).df
        df_filtered == FilterPrefix(df, run_id)
    IN IF Empty(df) THEN Reply("info", run_id, "empty", <<>>, <<>>)
       ELSE IF Len(df_filtered) = 0 THEN Reply("info", run_id, "not_found", <<>>, <<>>)
       ELSE IF Len(df_filtered) > 1
       THEN Reply("info", run_id, "ambiguous", RunIdList(df_filtered), <<>>)
       ELSE LET row == df_filtered[1]
                keep == IF category # None
                        THEN {k \in DOMAIN row :
                                InCategory(k, category)
                                \/ k \in {"run_id", "experiment_name"}}
                        ELSE DOMAIN row
            IN Reply("info", run_id, "match", <<row.run_id>>, <<Restrict(row, keep)>>)

\* results RUN_ID
results(conn, fault, run_id) ==
    LET df == load_benchmark_runs(conn, None, fault).df
        df_filtered == FilterPrefix(df, run_id)
    IN IF Empty(df) THEN Reply("results", run_id, "empty", <<>>, <<>>)
       ELSE IF Len(df_filtered) = 0 THEN Reply("results", run_id, "not_found", <<>>, <<>>)
       ELSE IF Len(df_filtered) > 1
       THEN Reply("results", run_id, "ambiguous", RunIdList(df_filtered), <<>>)
       ELSE Reply("results", run_id, "match", <<df_filtered[1].run_id>>,
                  Project(df_filtered,
                          {"run_id", "experiment_name", "datasets", "results_json"}))

\* timings RUN_ID: every timing row whose run_id starts with RUN_ID is shown,
\* under the run_id and experiment of the first of them.
timings(conn, fault, run_id) ==
    LET df == load_benchmark_timings(conn, None, None, fault).df
        df_filtered == FilterPrefix(df, run_id)
    IN IF Empty(df) THEN Reply("timings", run_id, "empty", <<>>, <<>>)
       ELSE IF Len(df_filtered) = 0 THEN Reply("timings", run_id, "not_found", <<>>, <<>>)
       ELSE Reply("timings", run_id, "match", <<df_filtered[1].run_id>>,
                  Project(df_filtered, {"stage", "time_ms", "time_s", "timestamp"}))

\* lookup_profile_from_run_id(run_id): (profile_path, error_message); exists
\* says whether the profile file is on disk, faults what each of the two
\* loads meets.
lookup_profile_from_run_id(conn, faults, run_id, exists) ==
    LET df_runs == load_benchmark_runs(conn, None, faults["benchmark_runs"]).df
        df_timings == load_benchmark_timings(conn, None, None,
                                             faults["benchmark_timings"]).df
        matched_runs == FilterPrefix(df_runs, run_id)
        op == "lookup_profile_from_run_id"
    IN IF Empty(df_runs) THEN Reply(op, run_id, "empty", <<>>, <<>>)
       ELSE IF Len(matched_runs) = 0 THEN Reply(op, run_id, "not_found", <<>>, <<>>)
       ELSE IF Len(matched_runs) > 1
       THEN Reply(op, run_id, "ambiguous", RunIdList(matched_runs), <<>>)
       ELSE LET row == matched_runs[1]
                timing_row == SelectSeq(df_timings.rows,
                                        LAMBDA r : ~IsNull(r, "run_id")
                                                   /\ r.run_id = row.run_id)
                with_id == SelectSeq(timing_row,
                               LAMBDA r : ~IsNull(r, "stage_metadata.experiment_id"))
            IN IF \/ Empty(df_timings)
                  \/ ~HasCol(df_timings, "stage_metadata.experiment_id")
                  \/ Len(timing_row) = 0
               THEN Reply(op, run_id, "no_timing_data", <<row.run_id>>, <<>>)
               ELSE IF Len(with_id) = 0
               THEN Reply(op, run_id, "no_experiment_id", <<row.run_id>>, <<>>)
               ELSE IF IsNull(row, "datasets")
               THEN Reply(op, run_id, "no_datasets", <<row.run_id>>, <<>>)
               ELSE IF ~exists
               THEN Reply(op, run_id, "profile_not_found", <<row.run_id>>, <<>>)
               ELSE Reply(op, run_id, "match", <<row.run_id>>,
                          <<[experiment_id |-> with_id[1]["stage_metadata.experiment_id"],
                             datasets |-> row.datasets]>>)

(***************************************************************************)
(* show_results.py: the speedup command                                    *)
(***************************************************************************)
\* Series.astype(bool), the truth value of the cell as Python takes it: a
\* number is true unless it is zero, a string is true unless it is empty
\* ('0' and '0.0' are true).
AsBool(col, v) ==
    IF TypeOf(col, v) = "bool" THEN v
    ELSE IF TypeOf(col, v) = "str" THEN ToString(v) # ToString("")
    ELSE AsFloat(v).num # 0

\* _parse_profiling_flags, per row: missing column or null cell is False
\* (fillna(False)), any other cell its truth value.
ProfilingFlag(df, row, col) ==
    HasCol(df, col) /\ ~IsNull(row, col) /\ AsBool(col, row[col])

profiled_mask(df, row) ==
    \/ ProfilingFlag(df, row, "stage_metadata.cprofile")
    \/ ProfilingFlag(df, row, "stage_metadata.cuml_accel_profile")

\* df[col] = pd.to_numeric(df[col], errors="coerce"): a text that reads as
\* a number becomes that number and any other text null; the column is
\* int64 when every cell is an integer and float64 otherwise.
ToNumeric(rows, col) ==
    MaybeConvertObjects({col},
        [i \in DOMAIN rows |->
            IF IsNull(rows[i], col) THEN rows[i]
            ELSE IF LooksNumeric(col, rows[i][col])
            THEN [rows[i] EXCEPT ![col] = NumberOfText(@)]
            ELSE IF TypeOf(col, rows[i][col]) = "str"
            THEN Restrict(rows[i], DOMAIN rows[i] \ {col})
            ELSE rows[i]])

\* df.rename(columns={old: new})
RenameRow(row, old, new) ==
    IF IsNull(row, old) THEN row
    ELSE (new :> row[old]) @@ Restrict(row, DOMAIN row \ {old})

\* Equality of merge keys: pandas matches a null key with a null key.
KeyEq(l, r, key) ==
    \/ IsNull(l, key) /\ IsNull(r, key)
    \/ ~IsNull(l, key) /\ ~IsNull(r, key) /\ l[key] = r[key]

\* left.merge(right, on=key, how=how) for frames sharing no other column:
\* one output row per matching pair, in the order of left; how = "left"
\* keeps a left row without a match, how = "inner" drops it.
RECURSIVE Merge(_, _, _, _)
Merge(left, right, key, how) ==
    IF left = <<>> THEN <<>>
    ELSE LET l == Head(left)
             m == SelectSeq(right, LAMBDA r : KeyEq(l, r, key))
             here == IF m = <<>>
                     THEN (IF how = "left" THEN <<l>> ELSE <<>>)
                     ELSE [j \in DOMAIN m |-> l @@ m[j]]
         IN here \o Merge(Tail(left), right, key, how)

\* _infer_num_gpus_from_cuda_device_count(df, df_runs); rows are the rows of
\* df and has_num_gpus says whether df has a num_gpus column.  A num_gpus
\* column with a null cell is float64, so the count it is filled with
\* becomes a float.
_infer_num_gpus_from_cuda_device_count(rows, has_num_gpus, df_runs) ==
    IF ~has_num_gpus THEN rows
    ELSE IF HasCol(df_runs, "cuda.cuda_device_count")
    THEN LET counts == ToNumeric(
                           [i \in DOMAIN df_runs.rows |->
                               RenameRow(Restrict(df_runs.rows[i],
                                            DOMAIN df_runs.rows[i]
                                            \cap {"run_id", "cuda.cuda_device_count"}),
                                         "cuda.cuda_device_count", "_cuda_device_count")],
                           "_cuda_device_count")
             merged == Merge(rows, counts, "run_id", "left")
         IN [i \in DOMAIN merged |->
               LET r == merged[i]
                   filled == IF IsNull(r, "num_gpus") /\ ~IsNull(r, "_cuda_device_count")
                             THEN ("num_gpus" :> AsFloat(r["_cuda_device_count"])) @@ r
                             ELSE r
               IN Restrict(filled, DOMAIN filled \ {"_cuda_device_count"})]
    ELSE rows

\* A JSON array, which json.loads turns into a Python list: a function on
\* 0 .. n-1, where a column-oriented dict with the keys "0", "1", ... is a
\* sequence. The model draws no empty array.
JsonArray(values) == [i \in 0 .. Len(values) - 1 |-> values[i + 1]]
IsList(v) == 0 \in DOMAIN v

\* Results whose columns are lists of values (orient "list") where the
\* commands expect dicts keyed by the row index.
ListPayload == [time_train_s |-> JsonArray(<<Float(1, 2), Float(7, 10)>>),
                time_infer_s |-> JsonArray(<<Float(1, 10), Float(1, 10)>>)]

\* Whether the extraction of one run's results raises AttributeError, which
\* the except clause (JSONDecodeError, ValueError, TypeError) lets through:
\* time_train_values.keys() on a list, or time_infer_values.get(idx) on one.
ResultsRaises(row) ==
    /\ ~IsNull(row, "results_json")
    /\ LET results_dict == row.results_json.json
       IN /\ "time_train_s" \in DOMAIN results_dict
          /\ \/ IsList(results_dict.time_train_s)
             \/ /\ results_dict.time_train_s # <<>>
                /\ "time_infer_s" \in DOMAIN results_dict
                /\ IsList(results_dict.time_infer_s)

\* The records one run's results_json contributes (lines 674-687): one per
\* index of time_train_s; a missing time_infer_s entry is None (NaN).
ResultsOfRow(row) ==
    IF IsNull(row, "results_json") THEN <<>>
    ELSE LET results_dict == row.results_json.json
             time_train_values == IF "time_train_s" \in DOMAIN results_dict
                                  THEN results_dict.time_train_s ELSE <<>>
             time_infer_values == IF "time_infer_s" \in DOMAIN results_dict
                                  THEN results_dict.time_infer_s ELSE <<>>
         IN [idx \in DOMAIN time_train_values |->
               Restrict(row, DOMAIN row \cap {"run_id"})
               @@ [time_train_s |-> time_train_values[idx],
                   time_infer_s |-> IF idx \in DOMAIN time_infer_values
                                    THEN time_infer_values[idx] ELSE NaN]]

\* The loop over df_runs: the records collected, or the AttributeError of the
\* first run that raises one.
RECURSIVE ResultsData(_)
ResultsData(runs) ==
    IF runs = <<>> THEN [rows |-> <<>>, raised |-> FALSE]
    ELSE IF ResultsRaises(Head(runs)) THEN [rows |-> <<>>, raised |-> TRUE]
    ELSE LET rest == ResultsData(Tail(runs))
         IN IF rest.raised THEN rest
            ELSE [rows |-> ResultsOfRow(Head(runs)) \o rest.rows, raised |-> FALSE]

\* Sorted insertion of floats, for the median.
RECURSIVE SortFloats(_)
SortFloats(v) ==
    IF v = <<>> THEN <<>>
    ELSE LET rest == SortFloats(Tail(v))
             x == Head(v)
             below == SelectSeq(rest, LAMBDA y : FloatLess(y, x))
             above == SelectSeq(rest, LAMBDA y : ~FloatLess(y, x))
         IN below \o <<x>> \o above

\* Series.median(): NaN skipped, the mean of the two middle values for an
\* even count, NaN for no value.
Median(values) ==
    LET v == SortFloats(SelectSeq(values, LAMBDA x : ~IsNaN(x)))
        n == Len(v)
    IN IF n = 0 THEN NaN
       ELSE IF n % 2 = 1 THEN v[(n + 1) \div 2]
       ELSE FloatAvg(v[n \div 2], v[n \div 2 + 1])

\* Python's order on the datasets strings the model draws.
StrRank(str) ==
    CASE str = "[\"APSFailure\"]" -> 0
      [] str = "[\"anneal\", \"credit-g\"]" -> 1
      [] str = "[\"anneal\"]" -> 2
      [] str = "[\"credit-g\"]" -> 3
      [] str = "[\"customer_satisfaction_in_airline\"]" -> 4
      [] str = "[\"diabetes\"]" -> 5

\* Order of (datasets, num_gpus) keys in groupby and sort_values: ascending,
\* null last.
DatasetsLess(a, b) ==
    IF IsNull(a, "datasets") THEN FALSE
    ELSE IF IsNull(b, "datasets") THEN TRUE
    ELSE StrRank(a.datasets) < StrRank(b.datasets)

NumGpusLess(a, b) ==
    IF IsNull(a, "num_gpus") THEN FALSE
    ELSE IF IsNull(b, "num_gpus") THEN TRUE
    ELSE NumLess(a.num_gpus, b.num_gpus)

KeyLess(a, b) ==
    \/ DatasetsLess(a, b)
    \/ KeyEq(a, b, "datasets") /\ NumGpusLess(a, b)

RECURSIVE SortByKey(_)
SortByKey(rows) ==
    IF rows = <<>> THEN <<>>
    ELSE LET rest == SortByKey(Tail(rows))
             x == Head(rows)
             below == SelectSeq(rest, LAMBDA y : KeyLess(y, x))
             above == SelectSeq(rest, LAMBDA y : ~KeyLess(y, x))
         IN below \o <<x>> \o above

GroupKey(row) == Restrict(row, DOMAIN row \cap {"datasets", "num_gpus"})

RECURSIVE SetToSeq(_)
SetToSeq(S) ==
    IF S = {} THEN <<>>
    ELSE LET x == CHOOSE y \in S : TRUE IN <<x>> \o SetToSeq(S \ {x})

\* df_merged.groupby(["datasets", "num_gpus"], dropna=False).agg(...): one
\* row per key, in key order.
GroupByAgg(df_merged) ==
    LET keys == SortByKey(SetToSeq({GroupKey(df_merged[i]) : i \in DOMAIN df_merged}))
    IN [g \in DOMAIN keys |->
          LET members == SelectSeq(df_merged, LAMBDA r : GroupKey(r) = keys[g])
              train == [i \in DOMAIN members |-> members[i].time_train_s]
              infer == [i \in DOMAIN members |-> members[i].time_infer_s]
          IN keys[g] @@ [median_time_train_s |-> Median(train),
                         median_time_infer_s |-> Median(infer),
                         count |-> Len(SelectSeq(train, LAMBDA x : ~IsNaN(x)))]]

\* DATASET_SIZES.get(x, (None, None))
DATASET_SIZES(x) ==
    CASE x = "[\"anneal\"]" -> [rows |-> 598, cols |-> 38]
      [] x = "[\"APSFailure\"]" -> [rows |-> 50666, cols |-> 170]
      [] x = "[\"credit-g\"]" -> [rows |-> 666, cols |-> 20]
      [] x = "[\"customer_satisfaction_in_airline\"]" -> [rows |-> 86586, cols |-> 21]
      [] x = "[\"diabetes\"]" -> [rows |-> 512, cols |-> 8]
      [] OTHER -> EmptyDict

\* The baseline taken from the groups with two accelerators.
Baseline_TwoGpus(df_agg) ==
    LET base == SelectSeq(df_agg, LAMBDA r : ~IsNull(r, "num_gpus") /\ NumEq(r.num_gpus, 2))
    IN [i \in DOMAIN base |->
          Restrict(base[i], DOMAIN base[i] \cap {"datasets"})
          @@ [baseline_train_s |-> base[i].median_time_train_s,
              baseline_infer_s |-> base[i].median_time_infer_s]]

\* Lines 715-719: the baseline frame.
Baseline(df_agg) ==
    LET base == SelectSeq(df_agg, LAMBDA r : ~IsNull(r, "num_gpus") /\ NumEq(r.num_gpus, 0))
    IN [i \in DOMAIN base |->
          Restrict(base[i], DOMAIN base[i] \cap {"datasets"})
          @@ [baseline_train_s |-> base[i].median_time_train_s,
              baseline_infer_s |-> base[i].median_time_infer_s]]

\* The ratio inverted: comparison over baseline.
SpeedupRow_Inverted(r) ==
    LET bt == IF IsNull(r, "baseline_train_s") THEN NaN ELSE r.baseline_train_s
        bi == IF IsNull(r, "baseline_infer_s") THEN NaN ELSE r.baseline_infer_s
        size == IF IsNull(r, "datasets") THEN EmptyDict ELSE DATASET_SIZES(r.datasets)
    IN Restrict(r, DOMAIN r \cap {"datasets", "num_gpus"})
       @@ size
       @@ [baseline_train_s |-> bt,
           speedup_train |-> FloatDiv(r.median_time_train_s, bt),
           baseline_infer_s |-> bi,
           speedup_infer |-> FloatDiv(r.median_time_infer_s, bi),
           count |-> r.count]

\* Line 726: df_agg.merge(df_baseline, on="datasets", how="left")
JoinBaseline(df_agg, df_baseline) == Merge(df_agg, df_baseline, "datasets", "left")

\* Lines 729-730, 740-741 and 753-759: one displayed row.
SpeedupRow(r) ==
    LET bt == IF IsNull(r, "baseline_train_s") THEN NaN ELSE r.baseline_train_s
        bi == IF IsNull(r, "baseline_infer_s") THEN NaN ELSE r.baseline_infer_s
        size == IF IsNull(r, "datasets") THEN EmptyDict ELSE DATASET_SIZES(r.datasets)
    IN Restrict(r, DOMAIN r \cap {"datasets", "num_gpus"})
       @@ size
       @@ [baseline_train_s |-> bt,
           speedup_train |-> FloatDiv(bt, r.median_time_train_s),
           baseline_infer_s |-> bi,
           speedup_infer |-> FloatDiv(bi, r.median_time_infer_s),
           count |-> r.count]

\* The rows of df_stage after the stage filter (lines 503 and 640).
StageRows(df_timings, stage) ==
    SelectSeq(df_timings.rows, LAMBDA r : ~IsNull(r, "stage") /\ r.stage = stage)

\* Lines 506-510 and 643-647: the rows left by the profiling filter.
KeptRows(df_timings, stage, include_profiled) ==
    IF include_profiled THEN StageRows(df_timings, stage)
    ELSE SelectSeq(StageRows(df_timings, stage),
                   LAMBDA r : ~profiled_mask(df_timings, r))

ExcludedCount(df_timings, stage, include_profiled) ==
    Len(StageRows(df_timings, stage)) - Len(KeptRows(df_timings, stage, include_profiled))

\* Lines 518-525 and 657-669: num_gpus renamed, made numeric and, unless
\* disabled, filled from the device count; nothing of it when the timings
\* have no stage_metadata.num_gpus column.
StageNumGpus(kept, df_timings, df_runs, no_infer_gpu_count) ==
    IF ~HasCol(df_timings, "stage_metadata.num_gpus") THEN kept
    ELSE LET renamed == ToNumeric(
                            [i \in DOMAIN kept |->
                                RenameRow(kept[i], "stage_metadata.num_gpus", "num_gpus")],
                            "num_gpus")
         IN IF no_infer_gpu_count THEN renamed
            ELSE _infer_num_gpus_from_cuda_device_count(renamed, TRUE, df_runs)

\* The speedup rows with the baseline rows left in.
DropBaseline_KeepAll(df_speedup) == df_speedup

\* Line 733: df_speedup[df_speedup["num_gpus"] != 0]
DropBaseline(df_speedup) ==
    SelectSeq(df_speedup, LAMBDA r : IsNull(r, "num_gpus") \/ ~NumEq(r.num_gpus, 0))

\* What a command printed: a message or rows; stage holds run_id and num_gpus
\* of the rows of df_stage it grouped by, raised whether it ended in an
\* exception.
Said(msg, excluded) ==
    [op |-> "speedup", msg |-> msg, excluded |-> excluded, agg |-> <<>>, rows |-> <<>>,
     stage |-> <<>>, raised |-> FALSE]

\* speedup [-e experiment] [--include-profiled] [--no-infer-gpu-count];
\* faults is what each of the two loads meets.
speedup(conn, faults, experiment, include_profiled, no_infer_gpu_count) ==
    LET df_runs == load_benchmark_runs(conn, experiment, faults["benchmark_runs"]).df
        df_timings == load_benchmark_timings(conn, None, experiment,
                                             faults["benchmark_timings"]).df
        excluded_count == ExcludedCount(df_timings, "model_fit", include_profiled)
        kept == KeptRows(df_timings, "model_fit", include_profiled)
        df_stage == StageNumGpus(kept, df_timings, df_runs, no_infer_gpu_count)
        results_data == ResultsData(df_runs.rows)
        df_runs_subset == Project(df_runs.rows, {"run_id", "datasets"})
        df_stage_subset == Project(df_stage, {"run_id", "num_gpus"})
        df_merged == Merge(Merge(results_data.rows, df_runs_subset, "run_id", "left"),
                           df_stage_subset, "run_id", "inner")
        df_agg == GroupByAgg(df_merged)
        df_baseline == Baseline(df_agg)
        joined == JoinBaseline(df_agg, df_baseline)
        df_speedup == DropBaseline([i \in DOMAIN joined |-> SpeedupRow(joined[i])])
    IN IF Empty(df_runs) \/ Empty(df_timings)
       THEN Said("No benchmark data found.", 0)
       ELSE IF kept = <<>>
       THEN Said("No timing data found.", excluded_count)
       ELSE IF ~HasCol(df_timings, "stage_metadata.num_gpus")
       THEN [Said("No num_gpus data found in timing metadata.", excluded_count)
                EXCEPT !.stage = df_stage_subset]
       ELSE IF results_data.raised
       THEN [Said("AttributeError", excluded_count)
                EXCEPT !.stage = df_stage_subset, !.raised = TRUE]
       ELSE IF results_data.rows = <<>>
       THEN [Said("No model results data found.", excluded_count)
                EXCEPT !.stage = df_stage_subset]
       ELSE IF df_baseline = <<>>
       THEN [Said("No baseline (num_gpus=0) data found. Cannot compute speedup.",
                  excluded_count) EXCEPT !.agg = df_agg, !.stage = df_stage_subset]
       ELSE IF df_speedup = <<>>
       THEN [Said("No GPU runs found to compare against baseline.", excluded_count)
                EXCEPT !.agg = df_agg, !.stage = df_stage_subset]
       ELSE [op |-> "speedup", msg |-> "", excluded |-> excluded_count,
             agg |-> df_agg, rows |-> SortByKey(df_speedup),
             stage |-> df_stage_subset, raised |-> FALSE]

\* Cell of a merged row; an unmatched left row has no value (NaN).
Cell(row, col) == IF IsNull(row, col) THEN NaN ELSE row[col]

\* sort_values("datasets") sorts with kind="quicksort": the argsort of the
\* non-null values by numpy's quicksort, nulls last. t is the permutation
\* being sorted, v the values it points to. Segments of up to
\* SMALL_QUICKSORT + 1 entries are sorted by insertion; longer ones are first
\* partitioned around the median of three, which exchanges equal values.
SMALL_QUICKSORT == 16

Swap(t, i, j) == [t EXCEPT ![i] = t[j], ![j] = t[i]]

\* if (LT(v[*i], v[*j])) INTP_SWAP(*i, *j)
SwapIfLess(t, v, i, j) == IF v[t[i]] < v[t[j]] THEN Swap(t, i, j) ELSE t

\* do { ++pi; } while (LT(v[*pi], vp)), from the incremented pi on
RECURSIVE ScanUp(_, _, _, _)
ScanUp(t, v, pi, vp) == IF v[t[pi]] < vp THEN ScanUp(t, v, pi + 1, vp) ELSE pi

\* do { --pj; } while (LT(vp, v[*pj])), from the decremented pj on
RECURSIVE ScanDown(_, _, _, _)
ScanDown(t, v, pj, vp) == IF vp < v[t[pj]] THEN ScanDown(t, v, pj - 1, vp) ELSE pj

RECURSIVE PartitionLoop(_, _, _, _, _)
PartitionLoop(t, v, pi, pj, vp) ==
    LET i == ScanUp(t, v, pi + 1, vp)
        j == ScanDown(t, v, pj - 1, vp)
    IN IF i >= j THEN [t |-> t, pi |-> i]
       ELSE PartitionLoop(Swap(t, i, j), v, i, j, vp)

\* One pass of the insertion sort: the entry at pi moves down past the
\* entries of pl .. pi-1 with a greater value.
InsertAt(t, v, pl, pi) ==
    LET vi == t[pi]
        pj == CHOOSE j \in pl .. pi :
                  /\ \A k \in j .. (pi - 1) : v[vi] < v[t[k]]
                  /\ j = pl \/ ~(v[vi] < v[t[j - 1]])
    IN [k \in DOMAIN t |->
          IF k < pj \/ k > pi THEN t[k] ELSE IF k = pj THEN vi ELSE t[k - 1]]

RECURSIVE InsertionSort(_, _, _, _, _)
InsertionSort(t, v, pl, pi, pr) ==
    IF pi > pr THEN t
    ELSE InsertionSort(InsertAt(t, v, pl, pi), v, pl, pi + 1, pr)

RECURSIVE aquicksort(_, _, _, _)
aquicksort(t, v, pl, pr) ==
    IF pr - pl > SMALL_QUICKSORT
    THEN LET pm == pl + ((pr - pl) \div 2)
             t1 == SwapIfLess(t, v, pm, pl)
             t2 == SwapIfLess(t1, v, pr, pm)
             t3 == SwapIfLess(t2, v, pm, pl)
             vp == v[t3[pm]]
             t4 == Swap(t3, pm, pr - 1)
             p == PartitionLoop(t4, v, pl, pr - 1, vp)
             t5 == Swap(p.t, p.pi, pr - 1)
         IN aquicksort(aquicksort(t5, v, pl, p.pi - 1), v, p.pi + 1, pr)
    ELSE InsertionSort(t, v, pl, pl + 1, pr)

\* df_agg.sort_values("datasets"): ascending, null last.
SortByDatasets(rows) ==
    LET all == [i \in 1 .. Len(rows) |-> i]
        non_nan_idx == SelectSeq(all, LAMBDA i : ~IsNull(rows[i], "datasets"))
        nan_idx == SelectSeq(all, LAMBDA i : IsNull(rows[i], "datasets"))
        non_nans == [k \in DOMAIN non_nan_idx |-> StrRank(rows[non_nan_idx[k]].datasets)]
        argsort == aquicksort([k \in DOMAIN non_nan_idx |-> k], non_nans,
                              1, Len(non_nan_idx))
    IN [k \in DOMAIN non_nan_idx |-> rows[non_nan_idx[argsort[k]]]]
       \o [k \in DOMAIN nan_idx |-> rows[nan_idx[k]]]

\* Lines 555-581: groupby(datasets[, num_gpus], dropna=False) with the median
\* and the count of time_s and, when the results were merged in, the medians
\* of time_train_s and time_infer_s; median_time_s renamed after the stage.
AggregateRows(df_merged, has_results, stage) ==
    LET keys == SortByKey(SetToSeq({GroupKey(df_merged[i]) : i \in DOMAIN df_merged}))
    IN [g \in DOMAIN keys |->
          LET members == SelectSeq(df_merged, LAMBDA r : GroupKey(r) = keys[g])
              times == [i \in DOMAIN members |-> Cell(members[i], "time_s")]
              train == [i \in DOMAIN members |-> Cell(members[i], "time_train_s")]
              infer == [i \in DOMAIN members |-> Cell(members[i], "time_infer_s")]
          IN keys[g]
             @@ ((stage \o "_time_s") :> Median(times))
             @@ [count |-> Len(SelectSeq(times, LAMBDA x : ~IsNaN(x)))]
             @@ (IF has_results
                 THEN [median_time_train_s |-> Median(train),
                       median_time_infer_s |-> Median(infer)]
                 ELSE EmptyDict)]

\* aggregate [-e experiment] -s stage [--include-profiled] [--no-infer-gpu-count]
aggregate(conn, faults, experiment, stage, include_profiled, no_infer_gpu_count) ==
    LET df_runs == load_benchmark_runs(conn, experiment, faults["benchmark_runs"]).df
        df_timings == load_benchmark_timings(conn, None, experiment,
                                             faults["benchmark_timings"]).df
        excluded_count == ExcludedCount(df_timings, stage, include_profiled)
        kept == KeptRows(df_timings, stage, include_profiled)
        df_stage == StageNumGpus(kept, df_timings, df_runs, no_infer_gpu_count)
        results_data == ResultsData(df_runs.rows)
        df_runs_subset == Project(df_runs.rows, {"run_id", "datasets"})
        with_datasets == Merge(df_stage, df_runs_subset, "run_id", "left")
        df_merged == IF results_data.rows # <<>>
                     THEN Merge(with_datasets, results_data.rows, "run_id", "left")
                     ELSE with_datasets
        df_agg == SortByDatasets(AggregateRows(df_merged, results_data.rows # <<>>, stage))
        said == [Said("", excluded_count) EXCEPT !.op = "aggregate"]
    IN IF Empty(df_runs) \/ Empty(df_timings)
       THEN [said EXCEPT !.msg = "No benchmark data found.", !.excluded = 0]
       ELSE IF kept = <<>>
       THEN [said EXCEPT !.msg = "No timing data found for stage."]
       ELSE IF results_data.raised
       THEN [said EXCEPT !.msg = "AttributeError", !.raised = TRUE,
                         !.stage = Project(df_stage, {"run_id", "num_gpus"})]
       ELSE [said EXCEPT !.rows = df_agg,
                         !.stage = Project(df_stage, {"run_id", "num_gpus"})]

(***************************************************************************)
(* One timer driven by its caller (SpecTimer).                             *)
(***************************************************************************)
Idle == [op |-> "none"]
Tables == {"benchmark_runs", "benchmark_timings"}
NoHistory == [t \in Tables |-> <<>>]

\* The processes on the database file, each with a connection of its own:
\* two that write (the benchmark, a second writer or the migration) and the
\* command line that reads; a process outside a call holds nothing.
Writers == {"w1", "w2"}
Procs == Writers \cup {"cli"}
IdleProc == [pc |-> "idle", calls |-> 0, overlapped |-> FALSE]
NoProcs == [w \in Procs |-> IdleProc]

InitTimer ==
    /\ clock = 0
    /\ \E md \in DefaultMetadatas, ctx \in Contexts :
           timer = NewTimer("exp_anneal", md, "ab12", ctx, clock)
    /\ scopes = <<>>
    /\ exc = FALSE
    /\ db = EmptyDb
    /\ written = NoHistory
    /\ procs = NoProcs
    /\ out = Idle

\* Time passes between two reads of the monotonic clock.
Tick ==
    /\ clock < MaxClock
    /\ clock' = clock + 1
    /\ UNCHANGED <<timer, scopes, exc, db, written, out, procs>>

\* with timer.time(stage, metadata): the generator runs up to its yield.
TimeEnter(stage, metadata) ==
    /\ ~exc
    /\ Len(scopes) < MaxDepth
    /\ Len(timer.timings) + Len(scopes) < MaxTimings
    /\ scopes' = Append(scopes, TimeFrame(timer, stage, metadata, clock))
    /\ out' = [op |-> "time_enter", stage |-> stage]
    /\ UNCHANGED <<timer, clock, exc, db, written, procs>>

\* The body of the innermost open scope raises.
BodyRaise ==
    /\ ~exc
    /\ scopes # <<>>
    /\ exc' = TRUE
    /\ out' = [op |-> "raise"]
    /\ UNCHANGED <<timer, scopes, clock, db, written, procs>>

\* An except clause around the point the exception has reached handles it.
Catch ==
    /\ exc
    /\ exc' = FALSE
    /\ out' = [op |-> "except"]
    /\ UNCHANGED <<timer, scopes, clock, db, written, procs>>

\* The innermost with block is left: the generator resumes after its yield
\* (normally, or by the throw of the exception in flight), its finally block
\* runs and an exception in flight is re-raised to the caller.
TimeExit ==
    /\ scopes # <<>>
    /\ LET frame == scopes[Len(scopes)]
       IN /\ timer' = [timer EXCEPT !.timings = TimeFinally(timer, frame, clock, exc)]
          /\ out' = [op |-> "time_exit", stage |-> frame.stage, raised |-> exc]
    /\ scopes' = SubSeq(scopes, 1, Len(scopes) - 1)
    /\ UNCHANGED <<clock, exc, db, written, procs>>

RecordTotalTime ==
    /\ ~exc
    /\ Len(timer.timings) + Len(scopes) < MaxTimings
    /\ timer' = [timer EXCEPT !.timings = record_total_time(timer, clock)]
    /\ out' = [op |-> "record_total_time"]
    /\ UNCHANGED <<scopes, clock, exc, db, written, procs>>

ToDf ==
    /\ ~exc
    /\ LET r == to_df(timer)
       IN /\ timer' = r.self
          /\ out' = [op |-> "to_df", df |-> r.df, repeated |-> out.op = "to_df"]
    /\ UNCHANGED <<scopes, clock, exc, db, written, procs>>

NextTimer ==
    \/ Tick
    \/ \E stage \in Stages, metadata \in CallMetadatas : TimeEnter(stage, metadata)
    \/ BodyRaise
    \/ Catch
    \/ TimeExit
    \/ RecordTotalTime
    \/ ToDf

SpecTimer == InitTimer /\ [][NextTimer]_vars

(***************************************************************************)
(* Processes on one database file.  Each process has a connection of its   *)
(* own, and SQLite serializes statements, not calls: between two           *)
(* statements of one process the other processes run.  DataFrame.to_sql    *)
(* is the SELECT on sqlite_master of SQLiteTable.exists, then for a        *)
(* missing table CREATE TABLE, for if_exists="replace" on a table that     *)
(* exists DROP TABLE and CREATE TABLE, then the INSERT of the rows in one  *)
(* transaction; DDL takes effect at once.  A call of                       *)
(* _save_dataframe_with_schema_evolution, BenchmarkTimer.to_sql or         *)
(* save_experiment_results is a sequence of these statements, each         *)
(* committed on its own.                                                   *)
(***************************************************************************)
\* The batches the appends have stored, per table.
Record(history, table, df, raised) ==
    IF ~raised /\ Len(df.rows) > 0
    THEN [history EXCEPT ![table] = Append(@, df)]
    ELSE history

\* The process after its call returned.
Returned(w) == [pc |-> "idle", calls |-> procs[w].calls, overlapped |-> procs[w].overlapped]

\* What the call a process is in shows its caller when it ends.
ReturnOf(w, raised) ==
    [op |-> procs[w].op, writer |-> w, run_id |-> procs[w].run_id, raised |-> raised]

\* What one statement of a call leaves on the screen: nothing.
StatementOf(w, sql) == [op |-> sql, writer |-> w]

\* The process w as it enters a call that appends the frames of jobs (each a
\* table and a frame with rows), in order: it is about to run to_sql with
\* if_exists="append" on the first.
Enter(w, op, run_id, jobs) ==
    [pc |-> "exists", calls |-> procs[w].calls + 1, overlapped |-> procs[w].overlapped,
     op |-> op, run_id |-> run_id, if_exists |-> "append",
     table |-> jobs[1].table, df |-> jobs[1].df, batch |-> jobs[1].df,
     df_existing |-> EmptyDataFrame, rest |-> Tail(jobs)]

\* An error leaves the call: sqlite3.OperationalError without "has no column"
\* in it, or any error inside the except clause.
Raise(w) ==
    /\ procs' = [procs EXCEPT ![w] = Returned(w)]
    /\ out' = ReturnOf(w, TRUE)

\* DROP TABLE
DropTableOf(conn, table) == [t \in DOMAIN conn \ {table} |-> conn[t]]

\* SQLiteTable.exists(), the first statement of df.to_sql(table, conn,
\* if_exists=..., index=False).
Exists(w) ==
    LET p == procs[w]
    IN /\ p.pc = "exists"
       /\ procs' = [procs EXCEPT ![w].pc =
                       IF p.table \notin DOMAIN db THEN "create"
                       ELSE IF p.if_exists = "replace" THEN "drop"
                       ELSE "insert"]
       /\ out' = StatementOf(w, "SELECT name FROM sqlite_master")
       /\ UNCHANGED <<timerVars, db, written>>

\* to_sql(if_exists="replace") on a table that existed: DROP TABLE, an error
\* when another process has dropped the table since.
DropTable(w) ==
    LET p == procs[w]
    IN /\ p.pc = "drop"
       /\ IF p.table \notin DOMAIN db
          THEN Raise(w) /\ UNCHANGED db
          ELSE /\ db' = DropTableOf(db, p.table)
               /\ procs' = [procs EXCEPT ![w].pc = "create"]
               /\ out' = StatementOf(w, "DROP TABLE")
       /\ UNCHANGED <<timerVars, written>>

\* CREATE TABLE with the columns of the frame, an error when another process
\* has created the table since it was found missing or dropped.
CreateTable(w) ==
    LET p == procs[w]
    IN /\ p.pc = "create"
       /\ IF p.table \in DOMAIN db
          THEN Raise(w) /\ UNCHANGED db
          ELSE /\ db' = (p.table :> ExecuteCreate(p.df)) @@ db
               /\ procs' = [procs EXCEPT ![w].pc = "insert"]
               /\ out' = StatementOf(w, "CREATE TABLE")
       /\ UNCHANGED <<timerVars, written>>

\* INSERT the rows of the frame into the table as it is now, committed at
\* once.  A column the table lacks is the error "has no column", which the
\* append answers with the recovery and the rewrite raises; a table that is
\* gone is an error.  After the INSERT the call goes on to its next append, or
\* returns.
Insert(w) ==
    LET p == procs[w]
    IN /\ p.pc = "insert"
       /\ IF p.table \notin DOMAIN db
          THEN Raise(w) /\ UNCHANGED <<db, written>>
          ELSE IF HasNoColumn(InsertError(db[p.table], p.df))
          THEN /\ IF p.if_exists = "append"
                  THEN /\ procs' = [procs EXCEPT ![w].pc = "read_sql"]
                       /\ out' = StatementOf(w, "INSERT")
                  ELSE Raise(w)
               /\ UNCHANGED <<db, written>>
          ELSE /\ db' = [db EXCEPT ![p.table] = ExecuteInsert(@, p.df)]
               /\ written' = Record(written, p.table, p.batch, FALSE)
               /\ IF p.rest = <<>>
                  THEN /\ procs' = [procs EXCEPT ![w] = Returned(w)]
                       /\ out' = ReturnOf(w, FALSE)
                  ELSE /\ procs' = [procs EXCEPT ![w] =
                                       [p EXCEPT !.pc = "exists",
                                                 !.if_exists = "append",
                                                 !.table = p.rest[1].table,
                                                 !.df = p.rest[1].df,
                                                 !.batch = p.rest[1].df,
                                                 !.rest = Tail(p.rest)]]
                       /\ out' = StatementOf(w, "INSERT")
       /\ UNCHANGED timerVars

\* The recovery: df_existing = pd.read_sql("SELECT * FROM table", conn), which
\* raises when the table is gone; df = pd.concat([df_existing, df], ...);
\* then df.to_sql(table, conn, if_exists="replace", index=False).
ReadSql(w) ==
    LET p == procs[w]
    IN /\ p.pc = "read_sql"
       /\ IF p.table \notin DOMAIN db
          THEN Raise(w)
          ELSE /\ procs' = [procs EXCEPT ![w] =
                               [p EXCEPT !.pc = "exists",
                                         !.if_exists = "replace",
                                         !.df_existing = ReadSqlAll(db, p.table),
                                         !.df = Concat(ReadSqlAll(db, p.table), p.df)]]
               /\ out' = StatementOf(w, "SELECT *")
       /\ UNCHANGED <<timerVars, db, written>>

\* The statement the process is about to run fails and the error leaves the
\* call: "database is locked" (another connection holds the lock) at any
\* statement, which is an OperationalError without "has no column" in it or,
\* at a SELECT, pandas' DatabaseError; or, at an INSERT whose columns the
\* table has, a cell that sqlite3 cannot bind.  The transaction of a failed
\* INSERT is rolled back; what the statements before it did stays.
Fault(w, fault) ==
    LET p == procs[w]
    IN /\ p.pc \in {"exists", "drop", "create", "insert", "read_sql"}
       /\ fault \in {ErrLocked, ErrBinding}
       /\ ~HasNoColumn(fault)
       /\ fault = ErrBinding =>
              /\ p.pc = "insert"
              /\ p.table \in DOMAIN db
              /\ InsertError(db[p.table], p.df) = NoError
       /\ Raise(w)
       /\ UNCHANGED <<timerVars, db, written>>

\* The statements of the call the benchmark process is in.
SaveStatement ==
    \/ Exists("w1")
    \/ CreateTable("w1")
    \/ Insert("w1")
    \/ ReadSql("w1")
    \/ DropTable("w1")

\* The appends of save_experiment_results(self, results, datasets) once the
\* total is recorded: the timings (BenchmarkTimer.to_sql), then the summary
\* row.
SaveJobs(self, payload, datasets) ==
    <<[table |-> "benchmark_timings", df |-> to_df(self).df],
      [table |-> "benchmark_runs",
       df |-> DataFrame(<<RunSummary(self, payload, datasets)>>)]>>

\* What a command that loads both tables has read: benchmark_runs as the first
\* load found it, benchmark_timings as the second finds it now.
RunsOf(conn) == Restrict(conn, DOMAIN conn \cap {"benchmark_runs"})
TimingsOf(conn) == Restrict(conn, DOMAIN conn \cap {"benchmark_timings"})
Loaded(p) == p.runs @@ TimingsOf(db)

\* What each of the two loads of a command meets: the load of benchmark_runs
\* met first, the load of benchmark_timings meets second.
FaultsOf(first, second) ==
    ("benchmark_runs" :> first) @@ ("benchmark_timings" :> second)

\* The frames the two loads of a command return.
FramesOf(conn, faults, experiment) ==
    ("benchmark_runs" :>
        load_benchmark_runs(conn, experiment, faults["benchmark_runs"]).df)
    @@ ("benchmark_timings" :>
        load_benchmark_timings(conn, None, experiment, faults["benchmark_timings"]).df)

\* A command starts: df_runs = load_benchmark_runs(...), the first of its two
\* loads, which may find the database locked.  The process holds the command
\* line and what the load met.
LoadRunsFor(name, args, fault) ==
    /\ procs["cli"].pc = "idle"
    /\ procs' = [procs EXCEPT !["cli"] =
                    [pc |-> name, calls |-> 0, overlapped |-> FALSE,
                     args |-> args, runs |-> RunsOf(db), fault |-> fault]]
    /\ out' = StatementOf("cli", "load_benchmark_runs")
    /\ UNCHANGED <<timerVars, db, written>>

(***************************************************************************)
(* The store under a single writer (SpecStore): frames are appended to     *)
(* benchmark_runs by _save_dataframe_with_schema_evolution and timers are  *)
(* appended to benchmark_timings by BenchmarkTimer.to_sql, as              *)
(* save_experiment_results does; the loaders read both tables.             *)
(***************************************************************************)
MaxBatches == 3

\* The frames appended: a column set, a number of rows, whether the last
\* column is None in every row and whether column a holds booleans (as
\* cuda.cuda_available does in every frame the benchmark stores).  The other
\* cells are integers, distinct per batch and row.
Shapes ==
    [cols : {{"a", "b"}, {"a", "c"}}, n : {1, 2}, none : {FALSE}, bool : {FALSE}]
    \cup [cols : {{"a", "b"}, {"a", "c"}}, n : {1}, none : {FALSE}, bool : {TRUE}]
    \cup {[cols |-> {"a"}, n |-> 1, none |-> FALSE, bool |-> FALSE],
          [cols |-> {"a", "c"}, n |-> 0, none |-> FALSE, bool |-> FALSE],
          [cols |-> {"a", "b"}, n |-> 1, none |-> TRUE, bool |-> FALSE]}

GenericDf(shape, k) ==
    [cols |-> shape.cols,
     rows |-> [i \in 1..shape.n |->
                 [c \in IF shape.none THEN {"a"} ELSE shape.cols |->
                     IF shape.bool /\ c = "a" THEN k % 2 = 1 ELSE 10 * k + i]]]

\* Timers as a run leaves them: no stage, one stage, one stage and the total.
StoreMetadatas == {[num_gpus |-> 0], [cprofile |-> TRUE]}
TimerAt0(md) == NewTimer("exp_anneal", md, "ab12", CHOOSE c \in Contexts : TRUE, 0)
TimerAt1(md) ==
    [TimerAt0(md) EXCEPT !.timings =
        TimeFinally(TimerAt0(md), TimeFrame(TimerAt0(md), "model_fit", EmptyDict, 0),
                    1, FALSE)]
TimerAt2(md) == [TimerAt1(md) EXCEPT !.timings = record_total_time(TimerAt1(md), 2)]
StoreTimers ==
    {TimerAt0(EmptyDict), TimerAt2([num_gpus |-> 0])}
    \cup {TimerAt1(md) : md \in StoreMetadatas}

InitStore ==
    /\ clock = 0
    /\ timer = TimerAt0(EmptyDict)
    /\ scopes = <<>>
    /\ exc = FALSE
    /\ db = EmptyDb
    /\ written = NoHistory
    /\ procs = NoProcs
    /\ out = Idle

\* The number of batches written so far, over both tables.
Batches == Len(written["benchmark_runs"]) + Len(written["benchmark_timings"])

\* The writer calls an append: it returns at once on a frame without rows
\* and otherwise goes through the statements of df.to_sql.  before is the
\* database as the call found it.
AppendCall(op, table, df) ==
    /\ procs["w1"].pc = "idle"
    /\ procs["w1"].calls < MaxBatches
    /\ IF NothingToStore(df)
       THEN /\ out' = [op |-> op, table |-> table, nrows |-> 0, raised |-> FALSE]
            /\ UNCHANGED procs
       ELSE /\ procs' = [procs EXCEPT !["w1"] =
                            Enter("w1", op, None, <<[table |-> table, df |-> df]>>)
                            @@ [before |-> db]]
            /\ out' = [op |-> "call", name |-> op, table |-> table]
    /\ UNCHANGED <<timerVars, db, written>>

\* _save_dataframe_with_schema_evolution(df, conn, "benchmark_runs")
SaveDataframe(shape) ==
    AppendCall("_save_dataframe_with_schema_evolution", "benchmark_runs",
               GenericDf(shape, procs["w1"].calls + 1))

\* timer.to_sql(conn, table="benchmark_timings"), on df = self.to_df()
TimerToSql(t) == AppendCall("to_sql", "benchmark_timings", to_df(t).df)

\* The loaders, called by another process at any point of an append.
LoadRuns(experiment_name, fault) ==
    LET r == load_benchmark_runs(db, experiment_name, fault)
    IN /\ db' = r.db
       /\ out' = [op |-> "load_benchmark_runs", table |-> "benchmark_runs",
                  args |-> [run_id |-> None, experiment_name |-> experiment_name],
                  fault |-> fault, df |-> r.df, raised |-> r.raised]
       /\ UNCHANGED <<timerVars, written, procs>>

LoadTimings(run_id, experiment_name, fault) ==
    LET r == load_benchmark_timings(db, run_id, experiment_name, fault)
    IN /\ db' = r.db
       /\ out' = [op |-> "load_benchmark_timings", table |-> "benchmark_timings",
                  args |-> [run_id |-> run_id, experiment_name |-> experiment_name],
                  fault |-> fault, df |-> r.df, raised |-> r.raised]
       /\ UNCHANGED <<timerVars, written, procs>>

NextStore ==
    \/ \E shape \in Shapes : SaveDataframe(shape)
    \/ \E t \in StoreTimers : TimerToSql(t)
    \/ SaveStatement
    \/ \E fault \in Faults \ {NoError} : Fault("w1", fault)
    \/ \E e \in {None, "exp_anneal"}, fault \in Faults : LoadRuns(e, fault)
    \/ \E rid \in {None, "ab12"}, e \in {"", "exp_anneal"}, fault \in Faults :
           LoadTimings(rid, e, fault)

SpecStore == InitStore /\ [][NextStore]_vars

(***************************************************************************)
(* Experiments saved with save_experiment_results and the commands of      *)
(* show_results.py and show_profile.py run on the store (SpecQuery).       *)
(***************************************************************************)
MaxRuns == 2

\* The run identifiers handed out, in order (uuid4 prefixes stand-ins).
RunIdSeq == <<"ab12", "ab99", "cd00", "ab77", "cd01">>

\* Model results as the experiment returns them: per-fold columns
\* time_train_s / time_infer_s (fold "0" is index 1), in seconds.
Payload(train, infer) == [time_train_s |-> train, time_infer_s |-> infer]

\* The experiments drawn: the dataset, the metadata of the model_fit scope,
\* the length of the scope (clock units of half a second) and the results.
Experiments ==
    { [name |-> "exp_anneal", datasets |-> <<"anneal">>,
       metadata |-> [num_gpus |-> 0, experiment_id |-> "e1"], fit |-> 20,
       results |-> Payload(<<Float(10, 1)>>, <<Float(1, 1)>>)],
      [name |-> "exp_anneal", datasets |-> <<"anneal">>,
       metadata |-> [num_gpus |-> 2, experiment_id |-> "e2"], fit |-> 5,
       results |-> Payload(<<Float(5, 2)>>, <<Float(1, 2)>>)],
      [name |-> "exp_anneal", datasets |-> <<"anneal">>,
       metadata |-> [num_gpus |-> 2], fit |-> 5,
       results |-> Payload(<<Float(5, 1)>>, <<Float(1, 4)>>)],
      [name |-> "exp_anneal", datasets |-> <<"anneal">>,
       metadata |-> [num_gpus |-> 2, experiment_id |-> "e2"], fit |-> 20,
       results |-> Payload(<<Float(5, 2)>>, <<Float(1, 2)>>)],
      [name |-> "exp_anneal", datasets |-> <<"anneal">>,
       metadata |-> [num_gpus |-> 2, cprofile |-> TRUE], fit |-> 20,
       results |-> Payload(<<Float(20, 1)>>, <<Float(1, 1)>>)],
      [name |-> "exp_anneal", datasets |-> <<"anneal">>,
       metadata |-> EmptyDict, fit |-> 5,
       results |-> EmptyDict],
      [name |-> "exp_credit", datasets |-> <<"credit-g">>,
       metadata |-> [num_gpus |-> 2, experiment_id |-> "e3"], fit |-> 5,
       results |-> Payload(<<Float(5, 2)>>, <<Float(1, 2)>>)],
      [name |-> "exp_credit", datasets |-> <<"credit-g">>,
       metadata |-> EmptyDict, fit |-> 5,
       results |-> Payload(<<Float(5, 2), Float(5, 1)>>, <<Float(1, 2)>>)] }

Prefixes == {"ab", "ab1", "zz"}

InitQuery ==
    /\ clock = 0
    /\ timer = NewTimer("exp_anneal", EmptyDict, RunIdSeq[1],
                        CHOOSE ctx \in Contexts : TRUE, 0)
    /\ scopes = <<>>
    /\ exc = FALSE
    /\ db = EmptyDb
    /\ written = NoHistory
    /\ procs = NoProcs
    /\ out = Idle

\* The saves started so far by the benchmark process.
Runs == procs["w1"].calls

\* One experiment by the benchmark process, whose clock starts with it: a new
\* timer, one model_fit scope around the fit, then save_experiment_results,
\* which records the total and enters the first of its appends.
RunExperiment(x) ==
    /\ procs["w1"].pc = "idle"
    /\ Runs < MaxRuns
    /\ LET t0 == NewTimer(x.name, EmptyDict, RunIdSeq[Runs + 1],
                          CHOOSE ctx \in Contexts : TRUE, 0)
           frame == TimeFrame(t0, "model_fit", x.metadata, 0)
           t1 == [t0 EXCEPT !.timings = TimeFinally(t0, frame, x.fit, FALSE)]
           t == [t1 EXCEPT !.timings = record_total_time(t1, x.fit)]
       IN /\ timer' = t
          /\ procs' = [procs EXCEPT !["w1"] =
                          Enter("w1", "save_experiment_results", t.run_id,
                                SaveJobs(t, x.results, x.datasets))]
          /\ out' = [op |-> "BenchmarkTimer", run_id |-> t.run_id]
    /\ clock' = x.fit
    /\ UNCHANGED <<scopes, exc, db, written>>

\* The second load of a command, df_timings = load_benchmark_timings(...),
\* which may find the database locked, and the rest of the command on the
\* two frames; conn holds the frames the loads returned.
Speedup(fault) ==
    LET p == procs["cli"]
        faults == FaultsOf(p.fault, fault)
    IN /\ p.pc = "speedup"
       /\ out' = speedup(Loaded(p), faults, p.args.experiment, p.args.include_profiled,
                         p.args.no_infer_gpu_count)
                  @@ p.args
                  @@ [conn |-> FramesOf(Loaded(p), faults, p.args.experiment)]
       /\ procs' = [procs EXCEPT !["cli"] = IdleProc]
       /\ UNCHANGED <<timerVars, db, written>>

LookupProfile(fault) ==
    LET p == procs["cli"]
        faults == FaultsOf(p.fault, fault)
    IN /\ p.pc = "lookup_profile_from_run_id"
       /\ out' = lookup_profile_from_run_id(Loaded(p), faults, p.args.run_id,
                                            p.args.exists)
                  @@ [conn |-> FramesOf(Loaded(p), faults, None)]
       /\ procs' = [procs EXCEPT !["cli"] = IdleProc]
       /\ UNCHANGED <<timerVars, db, written>>

\* The commands with one load; conn holds the frame the load returned.
Info(run_id, category, fault) ==
    /\ procs["cli"].pc = "idle"
    /\ out' = info(db, fault, run_id, category)
               @@ [conn |-> ("benchmark_runs" :> load_benchmark_runs(db, None, fault).df)]
    /\ UNCHANGED <<timerVars, db, written, procs>>

Results(run_id, fault) ==
    /\ procs["cli"].pc = "idle"
    /\ out' = results(db, fault, run_id)
               @@ [conn |-> ("benchmark_runs" :> load_benchmark_runs(db, None, fault).df)]
    /\ UNCHANGED <<timerVars, db, written, procs>>

Timings(run_id, fault) ==
    /\ procs["cli"].pc = "idle"
    /\ out' = timings(db, fault, run_id)
               @@ [conn |-> ("benchmark_timings" :>
                                load_benchmark_timings(db, None, None, fault).df)]
    /\ UNCHANGED <<timerVars, db, written, procs>>

NextQuery ==
    \/ \E x \in Experiments : RunExperiment(x)
    \/ SaveStatement
    \/ \E e \in {None, "exp_anneal"}, p \in BOOLEAN, n \in BOOLEAN, fault \in Faults :
           LoadRunsFor("speedup", [experiment |-> e, include_profiled |-> p,
                                   no_infer_gpu_count |-> n], fault)
    \/ \E fault \in Faults : Speedup(fault)

SpecQuery == InitQuery /\ [][NextQuery]_vars

\* The same experiments, and the commands that look a run up by a prefix of
\* its run_id (SpecLookup).
NextLookup ==
    \/ \E x \in Experiments : RunExperiment(x)
    \/ SaveStatement
    \/ \E run_id \in Prefixes, category \in {None, "cuda"}, fault \in Faults :
           Info(run_id, category, fault)
    \/ \E run_id \in Prefixes, fault \in Faults : Results(run_id, fault)
    \/ \E run_id \in Prefixes, fault \in Faults : Timings(run_id, fault)
    \/ \E run_id \in Prefixes, exists \in BOOLEAN, fault \in Faults :
           LoadRunsFor("lookup_profile_from_run_id",
                       [run_id |-> run_id, exists |-> exists], fault)
    \/ \E fault \in Faults : LookupProfile(fault)

SpecLookup == InitQuery /\ [][NextLookup]_vars

(***************************************************************************)
(* Runs saved one after the other with save_experiment_results, statement  *)
(* by statement, each statement meeting no error, a locked database or,    *)
(* at an INSERT, a value that cannot be bound (SpecSave).                  *)
(***************************************************************************)
\* The number of operations (runs started and saves) in a behaviour; each
\* takes one unit of the clock.
MaxSteps == 4

SaveFaults == {NoError, ErrLocked, ErrBinding}

\* run_id values a caller passes to BenchmarkTimer(...).
SuppliedRunIds == {"ab12"}

\* The runs drawn: the metadata of the model_fit scope, the context (of a
\* machine whose git lookup succeeded, and of one where it failed and
\* get_git_info adds git_error) and the run_id values the caller may pass.
SaveRuns ==
    {[metadata |-> [num_gpus |-> 0], context |-> CHOOSE ctx \in Contexts : TRUE,
      run_ids |-> SuppliedRunIds],
     [metadata |-> [num_gpus |-> 2, cprofile |-> TRUE],
      context |-> ("git.git_error" :> "no repo") @@ (CHOOSE ctx \in Contexts : TRUE),
      run_ids |-> {}]}

StoredRunIds(conn) ==
    UNION {{conn[t].rows[i].run_id : i \in DOMAIN conn[t].rows} : t \in DOMAIN conn}

\* uuid4().hex: an identifier no timer carries and no table holds.
FreshRunId ==
    LET used == StoredRunIds(db) \cup {timer.run_id}
                \cup UNION {StoredRunIds(written[t]) : t \in Tables}
    IN RunIdSeq[CHOOSE i \in DOMAIN RunIdSeq :
                   /\ RunIdSeq[i] \notin used
                   /\ \A j \in 1..(i - 1) : RunIdSeq[j] \in used]

InitSave ==
    /\ clock = 0
    /\ timer = NewTimer("exp_anneal", EmptyDict, RunIdSeq[1],
                        CHOOSE ctx \in Contexts : TRUE, 0)
    /\ scopes = <<>>
    /\ exc = FALSE
    /\ db = EmptyDb
    /\ written = NoHistory
    /\ procs = NoProcs
    /\ out = Idle

\* A run starts: BenchmarkTimer(name, run_id=...) or BenchmarkTimer(name),
\* then one model_fit scope of one clock unit.
StartRun(metadata, context, run_id) ==
    /\ procs["w1"].pc = "idle"
    /\ clock < MaxSteps
    /\ clock' = clock + 1
    /\ LET t0 == NewTimer("exp_anneal", EmptyDict, run_id, context, clock)
           frame == TimeFrame(t0, "model_fit", metadata, clock)
       IN timer' = [t0 EXCEPT !.timings = TimeFinally(t0, frame, clock + 1, FALSE)]
    /\ out' = [op |-> "BenchmarkTimer", run_id |-> run_id]
    /\ UNCHANGED <<scopes, exc, db, written, procs>>

\* save_experiment_results(timer, results, datasets) on the current timer is
\* called: timer.record_total_time() (line 86), then the statements of the
\* two appends follow.  before is the database as the call found it.
SaveResults ==
    /\ procs["w1"].pc = "idle"
    /\ clock < MaxSteps
    /\ clock' = clock + 1
    /\ LET payload == Payload(<<Float(10, 1)>>, <<Float(1, 1)>>)
           datasets == <<"anneal">>
           t == [timer EXCEPT !.timings = record_total_time(timer, clock)]
       IN /\ timer' = t
          /\ procs' = [procs EXCEPT !["w1"] =
                          Enter("w1", "save_experiment_results", t.run_id,
                                SaveJobs(t, payload, datasets))
                          @@ [before |-> db]]
          /\ out' = [op |-> "record_total_time", run_id |-> t.run_id]
    /\ UNCHANGED <<scopes, exc, db, written>>

NextSave ==
    \/ \E x \in SaveRuns :
           \E run_id \in {FreshRunId} \cup x.run_ids :
               StartRun(x.metadata, x.context, run_id)
    \/ SaveResults
    \/ SaveStatement
    \/ \E fault \in SaveFaults \ {NoError} : Fault("w1", fault)

SpecSave == InitSave /\ [][NextSave]_vars

(***************************************************************************)
(* Runs with profiling flags, explicit and missing accelerator counts and  *)
(* a results payload of another shape, read by aggregate and speedup       *)
(* (SpecAgg).                                                              *)
(***************************************************************************)
\* The experiments drawn: every process reports two devices (Contexts); the
\* stage metadata carries an explicit num_gpus or none, and a profiling flag
\* that is true, false or absent.
AggExperiments ==
    { [name |-> "exp_anneal", datasets |-> <<"anneal">>,
       metadata |-> [num_gpus |-> 0], fit |-> 20,
       results |-> Payload(<<Float(10, 1)>>, <<Float(1, 1)>>)],
      [name |-> "exp_anneal", datasets |-> <<"anneal">>,
       metadata |-> [num_gpus |-> 1, cprofile |-> FALSE], fit |-> 5,
       results |-> Payload(<<Float(5, 2)>>, <<Float(1, 2)>>)],
      [name |-> "exp_anneal", datasets |-> <<"anneal">>,
       metadata |-> [num_gpus |-> 1, cprofile |-> TRUE], fit |-> 20,
       results |-> Payload(<<Float(20, 1)>>, <<Float(1, 1)>>)],
      [name |-> "exp_anneal", datasets |-> <<"anneal">>,
       metadata |-> [cuml_accel_profile |-> TRUE], fit |-> 20,
       results |-> Payload(<<Float(20, 1)>>, <<Float(1, 1)>>)],
      [name |-> "exp_anneal", datasets |-> <<"anneal">>,
       metadata |-> [num_gpus |-> 1, cprofile |-> FALSE, cuml_accel_profile |-> FALSE],
       fit |-> 5,
       results |-> Payload(<<Float(5, 2)>>, <<Float(1, 2)>>)],
      [name |-> "exp_credit", datasets |-> <<"credit-g">>,
       metadata |-> EmptyDict, fit |-> 5,
       results |-> Payload(<<Float(5, 2), Float(5, 1)>>, <<Float(1, 2)>>)],
      [name |-> "exp_anneal", datasets |-> <<"anneal">>,
       metadata |-> [num_gpus |-> 0], fit |-> 20,
       results |-> ListPayload] }

AggStages == {"model_fit", "total"}

\* The caller saves the results of the timer it still holds a second time,
\* after the first save returned: the clock reads no less than it did then.
SaveAgain ==
    /\ procs["w1"].pc = "idle"
    /\ Runs > 0
    /\ Runs < MaxRuns
    /\ LET stored == db["benchmark_runs"].rows
           last == stored[Len(stored)]
           datasets == IF last.datasets = JsonDumpsList(<<"anneal">>)
                       THEN <<"anneal">> ELSE <<"credit-g">>
           t == [timer EXCEPT !.timings = record_total_time(timer, clock)]
       IN /\ timer' = t
          /\ procs' = [procs EXCEPT !["w1"] =
                          Enter("w1", "save_experiment_results", t.run_id,
                                SaveJobs(t, last.results_json.json, datasets))]
          /\ out' = [op |-> "record_total_time", run_id |-> t.run_id]
    /\ UNCHANGED <<scopes, clock, exc, db, written>>

\* The second load of aggregate and the rest of the command.
Aggregate(fault) ==
    LET p == procs["cli"]
        faults == FaultsOf(p.fault, fault)
    IN /\ p.pc = "aggregate"
       /\ out' = aggregate(Loaded(p), faults, p.args.experiment, p.args.stage_name,
                           p.args.include_profiled, p.args.no_infer_gpu_count)
                  @@ p.args
                  @@ [conn |-> FramesOf(Loaded(p), faults, p.args.experiment)]
       /\ procs' = [procs EXCEPT !["cli"] = IdleProc]
       /\ UNCHANGED <<timerVars, db, written>>

NextAgg ==
    \/ \E x \in AggExperiments : RunExperiment(x)
    \/ SaveAgain
    \/ SaveStatement
    \/ \E stage \in AggStages,
          include_profiled \in BOOLEAN, no_infer_gpu_count \in BOOLEAN, fault \in Faults :
           LoadRunsFor("aggregate",
                       [experiment |-> None, stage_name |-> stage,
                        include_profiled |-> include_profiled,
                        no_infer_gpu_count |-> no_infer_gpu_count], fault)
    \/ \E fault \in Faults : Aggregate(fault)
    \/ \E experiment \in {None, "exp_anneal"},
          include_profiled \in BOOLEAN, no_infer_gpu_count \in BOOLEAN, fault \in Faults :
           LoadRunsFor("speedup",
                       [experiment |-> experiment, stage_name |-> "model_fit",
                        include_profiled |-> include_profiled,
                        no_infer_gpu_count |-> no_infer_gpu_count], fault)
    \/ \E fault \in Faults : Speedup(fault)

SpecAgg == InitQuery /\ [][NextAgg]_vars

(***************************************************************************)
(* The final sort of aggregate on tables of many groups (SpecSort).        *)
(***************************************************************************)
MaxNumGpus == 3

\* The serialized dataset lists, in Python's string order.
DatasetNames ==
    <<"[\"APSFailure\"]", "[\"anneal\", \"credit-g\"]", "[\"anneal\"]",
      "[\"credit-g\"]", "[\"customer_satisfaction_in_airline\"]", "[\"diabetes\"]">>

\* The table groupby hands to sort_values for the first n datasets, each run
\* with the accelerator counts of G: one row per (datasets, num_gpus), in key
\* order.
GroupedTable(n, G) ==
    SortByKey(SetToSeq({[datasets |-> DatasetNames[d], num_gpus |-> g, count |-> 1] :
                           d \in 1 .. n, g \in G}))

InitSort ==
    /\ clock = 0
    /\ timer = NewTimer("exp_anneal", EmptyDict, RunIdSeq[1],
                        CHOOSE ctx \in Contexts : TRUE, 0)
    /\ scopes = <<>>
    /\ exc = FALSE
    /\ db = EmptyDb
    /\ written = NoHistory
    /\ procs = NoProcs
    /\ \E n \in DOMAIN DatasetNames, G \in SUBSET (0 .. MaxNumGpus) :
           /\ G # {}
           /\ out = [op |-> "groupby", rows |-> GroupedTable(n, G)]

\* Line 580 of aggregate.
SortValues ==
    /\ out.op = "groupby"
    /\ out' = [op |-> "sort_values", rows |-> SortByDatasets(out.rows),
               before |-> out.rows]
    /\ UNCHANGED <<timerVars, db, written, procs>>

NextSort == SortValues

SpecSort == InitSort /\ [][NextSort]_vars

(***************************************************************************)
(* benchmark_util.py: the metadata a timer collects when it is built       *)
(* (SpecMeta).                                                             *)
(***************************************************************************)
\* The calls into the environment that can fail.
Failures == {"getpass.getuser", "os.getlogin", "psutil", "numba.cuda",
             "pip freeze", "git.Repo"}

\* get_system_info: only the user lookup is inside a try; a failure of
\* platform, socket or psutil leaves the function as an exception.
get_system_info(failing) ==
    IF "psutil" \in failing THEN [raised |-> TRUE, info |-> EmptyDict]
    ELSE [raised |-> FALSE,
          info |-> [os |-> "Linux",
                    hostname |-> "node1",
                    user |-> IF "getpass.getuser" \notin failing THEN "alice"
                             ELSE IF "os.getlogin" \notin failing THEN "alice"
                             ELSE None,
                    cpu_count |-> 8,
                    total_ram_bytes |-> 1024]]

get_cuda_info(failing) ==
    IF "numba.cuda" \notin failing
    THEN [cuda_available |-> TRUE,
          cuda_device_count |-> 2,
          cuda_device_names |-> "[\"A100\", \"A100\"]",
          cuda_version |-> "12.2"]
    ELSE [cuda_available |-> FALSE,
          cuda_device_count |-> 0,
          cuda_device_names |-> "[]",
          cuda_version |-> None,
          cuda_error |-> "No module named 'numba'"]

get_python_info(failing) ==
    [python_version |-> "3.11.4",
     python_implementation |-> "CPython",
     python_executable |-> "/usr/bin/python3",
     pip_freeze |-> IF "pip freeze" \notin failing THEN "pandas==2.2.0" ELSE None]

get_git_info(failing) ==
    IF "git.Repo" \notin failing
    THEN [git_commit |-> "0a1b2c",
          git_branch |-> "main",
          git_dirty |-> FALSE,
          git_working_dir |-> "/work"]
    ELSE [git_commit |-> None,
          git_branch |-> None,
          git_dirty |-> None,
          git_working_dir |-> None,
          git_error |-> "InvalidGitRepositoryError"]

\* collect_all_metadata: the mapping returned, or the exception of a
\* collector that let one through.
collect_all_metadata(failing, now) ==
    LET system == get_system_info(failing)
    IN IF system.raised THEN [raised |-> TRUE, metadata |-> EmptyDict]
       ELSE [raised |-> FALSE,
             metadata |-> [execution_timestamp |-> now]
                          @@ _with_prefix("system.", system.info)
                          @@ _with_prefix("cuda.", get_cuda_info(failing))
                          @@ _with_prefix("python.", get_python_info(failing))
                          @@ _with_prefix("git.", get_git_info(failing))]

\* No timer is built yet; the environment fails in some of its calls.
InitMeta ==
    /\ clock = 0
    /\ timer = None
    /\ scopes = <<>>
    /\ exc = FALSE
    /\ db = EmptyDb
    /\ written = NoHistory
    /\ procs = NoProcs
    /\ \E failing \in SUBSET Failures : out = [op |-> "environment", failing |-> failing]

\* BenchmarkTimer(experiment_name): __post_init__ reads the clock and collects
\* the metadata; an exception of the collection ends the construction.
Construct ==
    /\ out.op = "environment"
    /\ LET r == collect_all_metadata(out.failing, clock)
       IN /\ timer' = IF r.raised THEN timer
                      ELSE NewTimer("exp_anneal", EmptyDict, RunIdSeq[1], r.metadata, clock)
          /\ exc' = r.raised
          /\ out' = [op |-> "BenchmarkTimer", failing |-> out.failing,
                     raised |-> r.raised, metadata |-> r.metadata]
    /\ UNCHANGED <<scopes, clock, db, written, procs>>

NextMeta == Construct

SpecMeta == InitMeta /\ [][NextMeta]_vars

(***************************************************************************)
(* migrate_experiment_id.py: backfilling stage_metadata.experiment_id      *)
(* (SpecMigrate).                                                          *)
(***************************************************************************)
\* A run-wide identifier as the runner generates it (uuid4().hex), and a
\* short one.
HexId == "d5c9b4244ef14e0480a3c6815c08e803"
ExperimentIds == {HexId, "e1"}
DatasetTails == {"anneal", "credit-g", "other"}

\* json.loads(datasets_json)[0] on the serialized lists the model draws.
FirstDataset(datasets_json) ==
    CASE datasets_json = "[\"anneal\"]" -> "anneal"
      [] datasets_json = "[\"credit-g\"]" -> "credit-g"
      [] datasets_json = "[\"anneal\", \"credit-g\"]" -> "anneal"

\* experiment_name.split("_", 1)[0] for a name with an underscore, on the
\* names the model draws: the identifier in front of the dataset name.
HasUnderscore(experiment_name) ==
    \E id \in ExperimentIds \cup {"exp"}, tail \in DatasetTails :
        experiment_name = id \o "_" \o tail

FirstPart(experiment_name) ==
    CHOOSE id \in ExperimentIds \cup {"exp"} :
        \E tail \in DatasetTails : experiment_name = id \o "_" \o tail

\* len(first_part) == 32 and all hex digits, on the identifiers drawn.
LooksLikeUuid(first_part) == first_part = HexId

\* extract_experiment_id(experiment_name, datasets_json); datasets_json is
\* None when the run has no summary row or no datasets.
extract_experiment_id(experiment_name, datasets_json) ==
    IF experiment_name = "" THEN None
    ELSE LET suffix == "_" \o FirstDataset(datasets_json)
             stripped == {id \in ExperimentIds \cup {"exp"} :
                             experiment_name = id \o suffix}
         IN IF datasets_json # None /\ stripped # {}
            THEN CHOOSE id \in stripped : TRUE
            ELSE IF HasUnderscore(experiment_name)
                    /\ LooksLikeUuid(FirstPart(experiment_name))
            THEN FirstPart(experiment_name)
            ELSE None

\* The row an UPDATE addresses with the index of the DataFrame row shifted by
\* nothing.
RowidOf_ZeroBased(idx) == idx

\* Line 160: rowid is 1-based, the DataFrame index 0-based.
RowidOf(idx) == idx + 1

\* dict(zip(df_runs["run_id"], df_runs["datasets"])).get(run_id): the
\* datasets of the last summary row with this run_id, None without one.
run_to_datasets(df_runs, run_id) ==
    LET rows == SelectSeq(df_runs.rows, LAMBDA r : r.run_id = run_id)
    IN IF rows = <<>> \/ IsNull(rows[Len(rows)], "datasets") THEN None
       ELSE rows[Len(rows)].datasets

\* Lines 105-110: the positions of the rows of df_timings without an
\* experiment_id, every row when the PRAGMA did not find the column.  When
\* the PRAGMA found the column and the frame read after it has none (the
\* table was rewritten in between), df_timings[column] raises KeyError.
MissingRows(df_timings, has_experiment_id_col) ==
    IF has_experiment_id_col /\ ~HasCol(df_timings, "stage_metadata.experiment_id")
    THEN [raised |-> TRUE, rows |-> <<>>]
    ELSE [raised |-> FALSE,
          rows |-> SelectSeq([i \in 1 .. Len(df_timings.rows) |-> i],
                       LAMBDA i : \/ ~has_experiment_id_col
                                  \/ IsNull(df_timings.rows[i],
                                            "stage_metadata.experiment_id"))]

\* Lines 118-132: the updates, one for each such row whose experiment_name
\* gives an identifier.
UpdatesOf(df_timings, df_runs, has_experiment_id_col) ==
    LET missing == MissingRows(df_timings, has_experiment_id_col).rows
        found == [k \in DOMAIN missing |->
                     [idx |-> missing[k] - 1,
                      run_id |-> df_timings.rows[missing[k]].run_id,
                      experiment_name |-> df_timings.rows[missing[k]].experiment_name,
                      experiment_id |->
                          extract_experiment_id(
                              df_timings.rows[missing[k]].experiment_name,
                              run_to_datasets(df_runs,
                                              df_timings.rows[missing[k]].run_id))]]
    IN SelectSeq(found, LAMBDA u : u.experiment_id # None)

\* UPDATE benchmark_timings SET "stage_metadata.experiment_id" = ? WHERE
\* rowid = ?, one statement per update; the rows of a table written by
\* to_sql have the rowids 1 .. n in insertion order.
RECURSIVE ApplyUpdates(_, _)
ApplyUpdates(rows, updates) ==
    IF updates = <<>> THEN rows
    ELSE LET u == Head(updates)
             rowid == RowidOf(u.idx)
             updated == IF rowid \in DOMAIN rows
                        THEN [rows EXCEPT ![rowid] =
                                 ("stage_metadata.experiment_id" :> u.experiment_id) @@ @]
                        ELSE rows
         IN ApplyUpdates(updated, Tail(updates))

\* The runs drawn: named id_dataset, with or without experiment_id in the
\* stage metadata, with the datasets of the name, other datasets or none.
MigExperiments ==
    { [name |-> "e1_anneal", datasets |-> <<"anneal">>,
       metadata |-> [num_gpus |-> 0], fit |-> 20,
       results |-> Payload(<<Float(10, 1)>>, <<Float(1, 1)>>)],
      [name |-> "e1_anneal", datasets |-> <<"anneal">>,
       metadata |-> [num_gpus |-> 2, experiment_id |-> "e1"], fit |-> 5,
       results |-> Payload(<<Float(5, 2)>>, <<Float(1, 2)>>)],
      [name |-> HexId \o "_credit-g", datasets |-> <<"credit-g">>,
       metadata |-> EmptyDict, fit |-> 5,
       results |-> Payload(<<Float(5, 2)>>, <<Float(1, 2)>>)],
      [name |-> HexId \o "_other", datasets |-> <<>>,
       metadata |-> [experiment_id |-> "kept"], fit |-> 5,
       results |-> EmptyDict],
      [name |-> "exp_other", datasets |-> <<"anneal", "credit-g">>,
       metadata |-> EmptyDict, fit |-> 5,
       results |-> EmptyDict] }

\* migrate_experiment_ids(db_path, dry_run) by a process of its own ("w2"),
\* statement by statement on its one connection.  What the pass shows when it
\* ends: the updates it found and whether it raised.
MigrateReturn(updates, raised) ==
    /\ procs' = [procs EXCEPT !["w2"] = IdleProc]
    /\ out' = [op |-> "migrate_experiment_ids", dry_run |-> procs["w2"].dry_run,
               updates |-> updates, raised |-> raised]

\* Lines 87-90: PRAGMA table_info(benchmark_timings), which gives no column
\* for a missing table.
TableInfo(dry_run) ==
    /\ procs["w2"].pc = "idle"
    /\ procs' = [procs EXCEPT !["w2"] =
                    [pc |-> "read_timings", calls |-> 0, overlapped |-> FALSE,
                     dry_run |-> dry_run,
                     has_experiment_id_col |->
                         /\ "benchmark_timings" \in DOMAIN db
                         /\ "stage_metadata.experiment_id" \in db["benchmark_timings"].cols,
                     df_timings |-> EmptyDataFrame,
                     updates |-> <<>>]]
    /\ out' = StatementOf("w2", "PRAGMA table_info")
    /\ UNCHANGED <<timerVars, db, written>>

\* Lines 94-99: df_timings = pd.read_sql("SELECT * FROM benchmark_timings"),
\* which raises for a missing table; an empty frame ends the pass.
SelectTimings ==
    LET p == procs["w2"]
    IN /\ p.pc = "read_timings"
       /\ IF "benchmark_timings" \notin DOMAIN db
          THEN MigrateReturn(<<>>, TRUE)
          ELSE IF Empty(ReadSqlAll(db, "benchmark_timings"))
          THEN MigrateReturn(<<>>, FALSE)
          ELSE /\ procs' = [procs EXCEPT !["w2"].pc = "read_runs",
                                         !["w2"].df_timings =
                                             ReadSqlAll(db, "benchmark_timings")]
               /\ out' = StatementOf("w2", "SELECT * FROM benchmark_timings")
       /\ UNCHANGED <<timerVars, db, written>>

\* Lines 102-147: df_runs = pd.read_sql("SELECT run_id, datasets FROM
\* benchmark_runs"), which raises for a missing table; then the rows without
\* an experiment_id are looked up, which raises KeyError when the frame
\* lacks the column the PRAGMA found, and the updates are worked out; the
\* pass ends when no row lacks an experiment_id or on a dry run.
SelectRuns ==
    LET p == procs["w2"]
        updates == UpdatesOf(p.df_timings, ReadSqlAll(db, "benchmark_runs"),
                             p.has_experiment_id_col)
    IN /\ p.pc = "read_runs"
       /\ IF "benchmark_runs" \notin DOMAIN db
          THEN MigrateReturn(<<>>, TRUE)
          ELSE IF MissingRows(p.df_timings, p.has_experiment_id_col).raised
          THEN MigrateReturn(<<>>, TRUE)
          ELSE IF MissingRows(p.df_timings, p.has_experiment_id_col).rows = <<>>
          THEN MigrateReturn(<<>>, FALSE)
          ELSE IF p.dry_run
          THEN MigrateReturn(updates, FALSE)
          ELSE /\ procs' = [procs EXCEPT !["w2"].pc =
                                             IF p.has_experiment_id_col
                                             THEN "update" ELSE "alter",
                                         !["w2"].updates = updates]
               /\ out' = StatementOf("w2", "SELECT run_id, datasets FROM benchmark_runs")
       /\ UNCHANGED <<timerVars, db, written>>

\* Lines 152-154: ALTER TABLE benchmark_timings ADD COLUMN
\* "stage_metadata.experiment_id" TEXT, an error when the table is gone or
\* has got the column since the PRAGMA.
AlterTable ==
    LET p == procs["w2"]
    IN /\ p.pc = "alter"
       /\ IF \/ "benchmark_timings" \notin DOMAIN db
             \/ "stage_metadata.experiment_id" \in db["benchmark_timings"].cols
          THEN MigrateReturn(p.updates, TRUE) /\ UNCHANGED db
          ELSE /\ db' = [db EXCEPT !["benchmark_timings"].cols =
                                       @ \cup {"stage_metadata.experiment_id"},
                                   !["benchmark_timings"].type =
                                       ("stage_metadata.experiment_id" :> "TEXT") @@ @]
               /\ procs' = [procs EXCEPT !["w2"].pc = "update"]
               /\ out' = StatementOf("w2", "ALTER TABLE")
       /\ UNCHANGED <<timerVars, written>>

\* Lines 157-163: the UPDATE statements and the commit; the transaction the
\* first UPDATE opens keeps the other writers out until the commit.  An
\* UPDATE raises when the table is gone or has lost the column, and nothing
\* is committed.
UpdateRows ==
    LET p == procs["w2"]
    IN /\ p.pc = "update"
       /\ IF p.updates = <<>>
          THEN MigrateReturn(p.updates, FALSE) /\ UNCHANGED db
          ELSE IF \/ "benchmark_timings" \notin DOMAIN db
                  \/ "stage_metadata.experiment_id" \notin db["benchmark_timings"].cols
          THEN MigrateReturn(p.updates, TRUE) /\ UNCHANGED db
          ELSE /\ db' = [db EXCEPT !["benchmark_timings"].rows =
                                       ApplyUpdates(@, p.updates)]
               /\ MigrateReturn(p.updates, FALSE)
       /\ UNCHANGED <<timerVars, written>>

\* A statement of the migration pass.
MigrateStatement ==
    \/ SelectTimings
    \/ SelectRuns
    \/ AlterTable
    \/ UpdateRows

NextMigrate ==
    \/ \E x \in MigExperiments : RunExperiment(x)
    \/ SaveStatement
    \/ \E dry_run \in BOOLEAN : TableInfo(dry_run)
    \/ MigrateStatement

SpecMigrate == InitQuery /\ [][NextMigrate]_vars

(***************************************************************************)
(* Two writers and a reader on one database file (SpecConc): each writer   *)
(* calls _save_dataframe_with_schema_evolution, statement by statement,    *)
(* and a third process loads the table.  As in SpecStore any statement of  *)
(* an append can find the database locked.                                 *)
(***************************************************************************)
ConcTable == "benchmark_runs"
WriterNo(w) == IF w = "w1" THEN 1 ELSE 2

\* The frames the writers append: one row each, and an empty frame.
ConcShapes == {shape \in Shapes : shape.n + Cardinality(shape.cols) <= 3 /\ ~shape.none}

\* The calls that went on to df.to_sql so far, over the writers.
RECURSIVE TotalCalls(_)
TotalCalls(ws) ==
    IF ws = {} THEN 0
    ELSE LET w == CHOOSE v \in ws : TRUE
         IN procs[w].calls + TotalCalls(ws \ {w})

InitConc ==
    /\ clock = 0
    /\ timer = TimerAt0(EmptyDict)
    /\ scopes = <<>>
    /\ exc = FALSE
    /\ db = EmptyDb
    /\ written = NoHistory
    /\ procs = NoProcs
    /\ out = Idle

\* _save_dataframe_with_schema_evolution(df, conn, table) is called:
\* if len(df) == 0: return
Call(w, shape) ==
    LET df == GenericDf(shape, 2 * procs[w].calls + WriterNo(w))
        op == "_save_dataframe_with_schema_evolution"
        overlapped == procs[w].overlapped \/ \E v \in Writers \ {w} : procs[v].pc # "idle"
    IN /\ procs[w].pc = "idle"
       /\ TotalCalls(Writers) < MaxBatches
       /\ IF NothingToStore(df)
          THEN /\ procs' = [procs EXCEPT ![w].overlapped = overlapped]
               /\ out' = [op |-> op, writer |-> w, run_id |-> None, raised |-> FALSE]
          ELSE /\ procs' = [v \in Procs |->
                               IF v = w
                               THEN [Enter(w, op, None, <<[table |-> ConcTable, df |-> df]>>)
                                        EXCEPT !.overlapped = overlapped]
                               ELSE [procs[v] EXCEPT !.overlapped =
                                         @ \/ procs[v].pc # "idle"]]
               /\ out' = StatementOf(w, "call")
       /\ UNCHANGED <<timerVars, db, written>>

\* load_benchmark_runs() by a third process, with where the writers are.
ConcLoad(fault) ==
    LET r == load_benchmark_runs(db, None, fault)
    IN /\ out' = [op |-> "load_benchmark_runs", df |-> r.df, raised |-> r.raised,
                  fault |-> fault, procs |-> procs]
       /\ UNCHANGED <<timerVars, db, written, procs>>

NextConc ==
    \/ \E w \in Writers, shape \in ConcShapes : Call(w, shape)
    \/ \E w \in Writers : Exists(w)
    \/ \E w \in Writers, fault \in Faults \ {NoError} : Fault(w, fault)
    \/ \E w \in Writers : CreateTable(w)
    \/ \E w \in Writers : Insert(w)
    \/ \E w \in Writers : ReadSql(w)
    \/ \E w \in Writers : DropTable(w)
    \/ \E fault \in Faults : ConcLoad(fault)

SpecConc == InitConc /\ [][NextConc]_vars

(***************************************************************************)
(* Properties of the store.                                                *)
(***************************************************************************)
RECURSIVE AllRows(_)
AllRows(batches) ==
    IF batches = <<>> THEN <<>>
    ELSE AllRows(SubSeq(batches, 1, Len(batches) - 1)) \o batches[Len(batches)].rows

AllCols(batches) == UNION {batches[i].cols : i \in DOMAIN batches}

\* The stored cell has the value that was written: equal to it as Python
\* and SQLite compare values, a number to a number of the same value
\* whatever its type (11 and 11.0, True and 1), a text to the same text only
\* ('1' is not 1).
Unchanged(key, stored, wrote) ==
    IF TypeOf(key, stored) = "str" \/ TypeOf(key, wrote) = "str"
    THEN ToString(stored) = ToString(wrote)
    ELSE AsFloat(stored) = AsFloat(wrote)

UnchangedRow(stored, wrote) ==
    /\ DOMAIN stored = DOMAIN wrote
    /\ \A c \in DOMAIN wrote : Unchanged(c, stored[c], wrote[c])

\* What is left of a cell after the conversions of the storage: the number a
\* boolean, an integer, a float or the text of a number stands for.
Canon(key, value) ==
    LET v == Bound(key, value)
        n == IF LooksNumeric(key, v) THEN NumberOfText(v) ELSE v
    IN IF TypeOf(key, n) = "int" THEN Float(n, 1) ELSE n

\* The stored row is the written one: null where it was null, and every
\* cell the written cell up to the conversions of the storage.
SameCell(key, stored, wrote) == ToString(Canon(key, stored)) = ToString(Canon(key, wrote))

SameRow(stored, wrote) ==
    /\ DOMAIN stored = DOMAIN wrote
    /\ \A c \in DOMAIN wrote : SameCell(c, stored[c], wrote[c])

AppendOps == {"_save_dataframe_with_schema_evolution", "to_sql"}

\* The writer is in no call and every call it entered stored its batch.
AllAppended == procs["w1"].pc = "idle" /\ procs["w1"].calls = Batches

\* The database as the call the writer is in, or makes in this step, found it.
Before == IF procs["w1"].pc = "idle" THEN db ELSE procs["w1"].before
LoadOps == {"load_benchmark_runs", "load_benchmark_timings"}

C3_UnionOfAllAppends ==
    AllAppended => \A t \in Tables :
        IF written[t] = <<>>
        THEN t \notin DOMAIN db
        ELSE /\ t \in DOMAIN db
             /\ db[t].cols = AllCols(written[t])
             /\ Len(db[t].rows) = Len(AllRows(written[t]))
             /\ \A i \in DOMAIN db[t].rows :
                    SameRow(db[t].rows[i], AllRows(written[t])[i])

\* Three appends have returned: a row with columns {a,b} created the table,
\* a row with column a alone was inserted, and a row with columns {a,c},
\* whose a is a boolean, was appended by migrate-and-rewrite; the table holds
\* the three rows under the three columns.
C3_Witness ==
    /\ AllAppended
    /\ Len(written["benchmark_runs"]) = 3
    /\ written["benchmark_runs"][1].cols = {"a", "b"}
    /\ written["benchmark_runs"][2].cols = {"a"}
    /\ written["benchmark_runs"][3].cols = {"a", "c"}
    /\ Len(written["benchmark_runs"][3].rows) = 1
    /\ TypeOf("a", written["benchmark_runs"][3].rows[1].a) = "bool"
    /\ db["benchmark_runs"].cols = {"a", "b", "c"}
    /\ Len(db["benchmark_runs"].rows) = 3
    /\ DOMAIN db["benchmark_runs"].rows[1] = {"a", "b"}
    /\ DOMAIN db["benchmark_runs"].rows[2] = {"a"}
    /\ DOMAIN db["benchmark_runs"].rows[3] = {"a", "c"}

\* C4: a call of an append with a frame without rows leaves the database as
\* it found it: when the call returns, every table, its columns and its rows
\* are as they were when it was made, and no table was created.
C4_EmptyAppendNoOp ==
    [][(/\ out'.op \in AppendOps
        /\ IF "nrows" \in DOMAIN out' THEN out'.nrows = 0
           ELSE Len(procs["w1"].batch.rows) = 0)
       => db' = Before]_vars

\* An append of no rows to a table that does not exist has returned.
C4_Witness ==
    /\ out.op \in AppendOps
    /\ "nrows" \in DOMAIN out
    /\ out.nrows = 0
    /\ ~out.raised
    /\ out.table \notin DOMAIN db

\* C5: a loader called while its table does not exist, with any filters,
\* returns the empty frame, raises nothing and leaves the database as it
\* was (it creates no table), also when it finds the database locked.
C5_LoadMissingTable ==
    [][(out'.op \in LoadOps /\ out'.table \notin DOMAIN db)
          => /\ out'.df = EmptyDataFrame
             /\ ~out'.raised
             /\ db' = db
      ]_vars

\* load_benchmark_timings was called with both filters on a database that
\* has no benchmark_timings table.
C5_Witness ==
    /\ out.op = "load_benchmark_timings"
    /\ out.args.run_id = "ab12"
    /\ out.args.experiment_name = "exp_anneal"
    /\ "benchmark_timings" \notin DOMAIN db
    /\ "benchmark_runs" \in DOMAIN db
    /\ out.df = EmptyDataFrame

(***************************************************************************)
(* Properties of the timer.                                                *)
(***************************************************************************)

\* C1: every step that leaves a time() scope, with or without an exception
\* in flight, appends exactly one record to timer.timings; the record carries
\* the scope's stage label and a time_ns >= 0, the records already there are
\* untouched, and an exception in flight is still in flight afterwards.  No
\* other step adds a record, record_total_time excepted.
C1_OneRecordPerScope ==
    [][LET n == Len(timer.timings)
       IN IF Len(scopes') < Len(scopes)
          THEN /\ Len(timer'.timings) = n + 1
               /\ SubSeq(timer'.timings, 1, n) = timer.timings
               /\ timer'.timings[n + 1].stage = scopes[Len(scopes)].stage
               /\ timer'.timings[n + 1].time_ns >= 0
               /\ exc' = exc
          ELSE timer'.timings # timer.timings => out'.op = "record_total_time"
      ]_vars

\* A scope whose body raised has been left: its record is there and the
\* exception is still propagating.
C1_Witness ==
    /\ out.op = "time_exit"
    /\ out.raised
    /\ exc
    /\ Len(timer.timings) >= 1
    /\ timer.timings[Len(timer.timings)].stage = out.stage

\* C10: a to_df call leaves the timer (timings, context, metadata, run_id)
\* as it found it, and a to_df call that directly follows a to_df call
\* returns the same DataFrame.
C10_ToDfIdempotent ==
    [][out'.op = "to_df" =>
          /\ timer'.timings = timer.timings
          /\ timer'.context = timer.context
          /\ timer'.metadata = timer.metadata
          /\ timer'.run_id = timer.run_id
          /\ (out.op = "to_df" => out'.df = out.df)
      ]_vars

\* to_df was called twice in a row on a timer holding a record whose list
\* metadata had to be serialized.
C10_Witness ==
    /\ out.op = "to_df"
    /\ out.repeated
    /\ Len(out.df.rows) >= 1
    /\ "stage_metadata.tags" \in DOMAIN out.df.rows[1]
    /\ out.df.rows[1]["stage_metadata.tags"] = [json |-> <<"a", "b">>]

(***************************************************************************)
(* Properties of the commands.                                             *)
(***************************************************************************)
\* The frames the loads of the command that wrote out returned:
\* benchmark_runs from its first load and benchmark_timings from its second,
\* or the one table of a command with one load.
Seen == out.conn

\* The groups of the speedup query for the dataset of row d.
GroupsOf(d) == SelectSeq(out.agg, LAMBDA g : KeyEq(g, d, "datasets"))
IsBaselineGroup(g) == ~IsNull(g, "num_gpus") /\ NumEq(g.num_gpus, 0)
RowsOf(d) == SelectSeq(out.rows, LAMBDA r : KeyEq(r, d, "datasets"))

\* C6 (as stated): in the output of the speedup query there is no row for a
\* dataset that has no group with num_gpus = 0, also when another dataset of
\* the same query has such a group.
C6_NoRowWithoutBaseline ==
    out.op = "speedup" =>
        \A i \in DOMAIN out.rows :
            \E j \in DOMAIN GroupsOf(out.rows[i]) :
                IsBaselineGroup(GroupsOf(out.rows[i])[j])

\* C7: in the speedup query a dataset with exactly one baseline group
\* (num_gpus = 0) and exactly one comparison group (num_gpus # 0) has exactly
\* one output row, and the row's speedup is the baseline group's median
\* divided by the comparison group's median, for training and for inference.
C7_OneRowBaselineOverComparison ==
    out.op = "speedup" =>
        \A k \in DOMAIN out.agg :
            LET groups == GroupsOf(out.agg[k])
                base == SelectSeq(groups, IsBaselineGroup)
                comp == SelectSeq(groups, LAMBDA g : ~IsBaselineGroup(g))
                shown == RowsOf(out.agg[k])
            IN (Len(base) = 1 /\ Len(comp) = 1) =>
                   /\ Len(shown) = 1
                   /\ KeyEq(shown[1], comp[1], "num_gpus")
                   /\ shown[1].baseline_train_s = base[1].median_time_train_s
                   /\ shown[1].speedup_train =
                          FloatDiv(base[1].median_time_train_s, comp[1].median_time_train_s)
                   /\ shown[1].speedup_infer =
                          FloatDiv(base[1].median_time_infer_s, comp[1].median_time_infer_s)

\* A speedup query answered with one row for anneal on two accelerators, of
\* training speedup 10.0 / 5.0 = 2.0, from one baseline and one comparison group.
C7_Witness ==
    /\ out.op = "speedup"
    /\ Len(out.agg) = 2
    /\ IsBaselineGroup(out.agg[1])
    /\ out.agg[1].median_time_train_s = Float(10, 1)
    /\ out.agg[2].median_time_train_s = Float(5, 1)
    /\ Len(out.rows) = 1
    /\ out.rows[1].datasets = "[\"anneal\"]"
    /\ NumEq(out.rows[1].num_gpus, 2)
    /\ out.rows[1].speedup_train = Float(2, 1)

RunIdsIn(rows) == {rows[i].run_id : i \in DOMAIN rows}

Seconds(by, run, fit) ==
    IF by = "stage" THEN fit.time_s
    ELSE IF "time_train_s" \in DOMAIN run.results_json.json
            /\ Len(run.results_json.json.time_train_s) = 1
    THEN run.results_json.json.time_train_s[1]
    ELSE NaN

\* The command read exactly two runs and their timing rows, both runs of
\* dataset anneal, no model_fit scope marked as profiled, one run with
\* num_gpus 0 and one with num_gpus 2;
\* the seconds of the first, read from its model_fit row (by = "stage") or
\* from its model results (by = "results"), are 10.0 and of the second 2.5.
AnnealPair(by) ==
    /\ DOMAIN Seen = Tables
    /\ Len(Seen["benchmark_runs"].rows) = 2
    /\ \A i \in 1..2 : Seen["benchmark_runs"].rows[i].datasets = "[\"anneal\"]"
    /\ RunIdsIn(Seen["benchmark_timings"].rows) = RunIdsIn(Seen["benchmark_runs"].rows)
    /\ \A j \in DOMAIN Seen["benchmark_timings"].rows :
           ~profiled_mask(Seen["benchmark_timings"], Seen["benchmark_timings"].rows[j])
    /\ \E i0, i2 \in 1..2 :
           LET FitOf(i) == SelectSeq(Seen["benchmark_timings"].rows,
                               LAMBDA r : /\ r.run_id = Seen["benchmark_runs"].rows[i].run_id
                                          /\ r.stage = "model_fit")
           IN /\ i0 # i2
              /\ Len(FitOf(i0)) = 1 /\ Len(FitOf(i2)) = 1
              /\ ~IsNull(FitOf(i0)[1], "stage_metadata.num_gpus")
              /\ NumEq(FitOf(i0)[1]["stage_metadata.num_gpus"], 0)
              /\ ~IsNull(FitOf(i2)[1], "stage_metadata.num_gpus")
              /\ NumEq(FitOf(i2)[1]["stage_metadata.num_gpus"], 2)
              /\ Seconds(by, Seen["benchmark_runs"].rows[i0], FitOf(i0)[1]) = Float(10, 1)
              /\ Seconds(by, Seen["benchmark_runs"].rows[i2], FitOf(i2)[1]) = Float(5, 2)

\* The one row of the scenario: anneal, two accelerators, baseline 10.0 s,
\* speedup 4.0.
AnnealRow ==
    /\ Len(out.rows) = 1
    /\ out.rows[1].datasets = "[\"anneal\"]"
    /\ NumEq(out.rows[1].num_gpus, 2)
    /\ out.rows[1].baseline_train_s = Float(10, 1)
    /\ out.rows[1].speedup_train = Float(4, 1)

\* C8 (as stated): with two stored runs for anneal, num_gpus 0 and 2, whose
\* model_fit stage durations are 10.0 s and 2.5 s, the speedup query returns
\* exactly one row: anneal, num_gpus 2, baseline 10.0 s, speedup 4.0.
C8_FromStageDurations ==
    (out.op = "speedup" /\ AnnealPair("stage")) => AnnealRow

\* C8 (amended): with two stored runs for anneal, num_gpus 0 and 2, not
\* profiled, whose model results hold time_train_s 10.0 s and 2.5 s, the
\* speedup query returns exactly one row: anneal, num_gpus 2, baseline 10.0 s,
\* speedup 4.0, whatever the durations of the model_fit stages are.
C8_FromModelResults ==
    (out.op = "speedup" /\ AnnealPair("results")) => AnnealRow

\* The scenario answered with its row while both model_fit stages lasted
\* 10.0 s: the ratio comes from the model results.
C8_Witness ==
    /\ out.op = "speedup"
    /\ AnnealPair("results")
    /\ AnnealRow
    /\ \A j \in DOMAIN Seen["benchmark_timings"].rows :
           Seen["benchmark_timings"].rows[j].stage = "model_fit"
           => Seen["benchmark_timings"].rows[j].time_s = Float(10, 1)

\* The run identifiers the command read (from benchmark_runs, or from
\* benchmark_timings when that is the table it reads) that start with prefix.
Matching(prefix) ==
    LET read == IF "benchmark_runs" \in DOMAIN Seen
                THEN Seen["benchmark_runs"] ELSE Seen["benchmark_timings"]
        ids == RunIdList(read.rows)
    IN {ids[i] : i \in {j \in DOMAIN ids : StartsWith(ids[j], prefix)}}

LookupOps == {"info", "results", "timings", "lookup_profile_from_run_id"}

\* C9 (as stated): every lookup by run-id prefix (info, results, timings,
\* lookup_profile_from_run_id) whose prefix matches more than one stored run
\* answers with a disambiguation that lists all matching identifiers and
\* shows data of none of them.
C9_PrefixLookupDisambiguates ==
    (out.op \in LookupOps /\ Cardinality(Matching(out.arg)) > 1) =>
        /\ out.kind = "ambiguous"
        /\ {out.ids[i] : i \in DOMAIN out.ids} = Matching(out.arg)
        /\ out.shown = <<>>

(***************************************************************************)
(* Properties of the timer, continued.                                     *)
(***************************************************************************)
RecordFields == {"stage", "time_ns", "time_ms", "time_s", "timestamp"}

\* The union of defaults and call-site metadata, the call site winning.
MergedMetadata(defaults, call) ==
    [k \in DOMAIN defaults \cup DOMAIN call |->
        IF k \in DOMAIN call THEN call[k] ELSE defaults[k]]

\* C11: the stage metadata of the record of time(stage, metadata) is the
\* union of the timer's default metadata and the call-site metadata, the
\* call-site value on a key of both, and each key is stored under the
\* stage_metadata. prefix: entering the scope merges the two, and leaving it
\* appends a record whose keys outside the fixed fields are exactly the
\* prefixed keys of the merge, with its values.
C11_MetadataMerge ==
    [][/\ \A stage \in Stages, metadata \in CallMetadatas :
              TimeEnter(stage, metadata) =>
                  scopes'[Len(scopes')].stage_metadata
                      = MergedMetadata(timer.metadata, metadata)
       /\ TimeExit =>
              LET rec == timer'.timings[Len(timer'.timings)]
                  md == scopes[Len(scopes)].stage_metadata
              IN /\ DOMAIN rec \ RecordFields
                        = {"stage_metadata." \o k : k \in DOMAIN md}
                 /\ \A k \in DOMAIN md : rec["stage_metadata." \o k] = md[k]]_vars

\* A record of a timer with defaults num_gpus 0 and tags, timed with call-site
\* num_gpus 2: it carries the call-site num_gpus and the default tags.
C11_Witness ==
    /\ "num_gpus" \in DOMAIN timer.metadata
    /\ timer.metadata.num_gpus = 0
    /\ out.op = "time_exit"
    /\ Len(timer.timings) >= 1
    /\ LET rec == timer.timings[Len(timer.timings)]
       IN /\ "stage_metadata.num_gpus" \in DOMAIN rec
          /\ rec["stage_metadata.num_gpus"] = 2
          /\ rec["stage_metadata.tags"] = <<"a", "b">>

\* C12: one call of record_total_time appends exactly one record, of stage
\* "total", and its elapsed time is at least the elapsed time of every record
\* already in the list (each of a scope entered after the construction of the
\* timer and left before the call).
C12_TotalCoversStages ==
    [][RecordTotalTime =>
          /\ Len(timer'.timings) = Len(timer.timings) + 1
          /\ SubSeq(timer'.timings, 1, Len(timer.timings)) = timer.timings
          /\ timer'.timings[Len(timer'.timings)].stage = "total"
          /\ DOMAIN timer'.timings[Len(timer'.timings)] = RecordFields
          /\ \A i \in DOMAIN timer.timings :
                 timer'.timings[Len(timer'.timings)].time_ns >= timer.timings[i].time_ns]_vars

\* A scope entered one unit after construction and left one unit later, then
\* the total: the stage lasted 1 unit and the total 2.
C12_Witness ==
    /\ out.op = "record_total_time"
    /\ Len(timer.timings) = 2
    /\ timer.timings[1].stage = "model_fit"
    /\ timer.timings[1].time_ns = 1
    /\ timer.timings[2].stage = "total"
    /\ timer.timings[2].time_ns = 2

(***************************************************************************)
(* Properties of save_experiment_results.                                  *)
(***************************************************************************)
RowsOfTable(conn, t) == IF t \in DOMAIN conn THEN conn[t].rows ELSE <<>>

\* The table as a caller can observe it: missing, or its columns and rows.
TableState(conn, t) == IF t \in DOMAIN conn THEN <<conn[t]>> ELSE <<>>

\* C13 (as stated): the timing batch is appended before the summary row, so
\* in every state of the store every run_id with a row in benchmark_runs has
\* at least one row in benchmark_timings.
C13_RunHasTimings ==
    \A i \in DOMAIN RowsOfTable(db, "benchmark_runs") :
        \E j \in DOMAIN RowsOfTable(db, "benchmark_timings") :
            db["benchmark_timings"].rows[j].run_id = db["benchmark_runs"].rows[i].run_id

\* C14 (as stated): benchmark_runs never holds two rows with the same run_id,
\* whatever sequence of saves was made, and no operation on a timer changes
\* its run_id.
C14_RunWrittenOnce ==
    [][/\ \A i, j \in DOMAIN RowsOfTable(db', "benchmark_runs") :
              db'["benchmark_runs"].rows[i].run_id = db'["benchmark_runs"].rows[j].run_id
              => i = j
       /\ out'.op # "BenchmarkTimer" => timer'.run_id = timer.run_id]_vars

\* C15 (as stated): an append takes the migrate-and-rewrite path only when
\* the direct append failed on a missing column; every other failure of an
\* append reaches the caller and leaves the table, its rows and its schema,
\* as it was.
C15_OtherFailureLeavesTable ==
    [][(out'.op = "save_experiment_results" /\ out'.raised) =>
           TableState(db', procs["w1"].table)
               = TableState(procs["w1"].before, procs["w1"].table)]_vars

(***************************************************************************)
(* Properties of aggregate and speedup.                                    *)
(***************************************************************************)
ReadOps == {"aggregate", "speedup"}

\* The timing rows a command has read: those of its stage and, with -e, of
\* its experiment.
StageTimings(experiment, stage) ==
    SelectSeq(RowsOfTable(Seen, "benchmark_timings"),
              LAMBDA r : /\ r.stage = stage
                         /\ experiment = None \/ r.experiment_name = experiment)

\* The run rows a command has read.
ReadRuns(experiment) ==
    SelectSeq(RowsOfTable(Seen, "benchmark_runs"),
              LAMBDA r : experiment = None \/ r.experiment_name = experiment)

\* The flag of row r is present and true: the cell holds True as it was
\* written or as the storage keeps it (1, 1.0, '1', '1.0').
FlagTrue(r, flag) == flag \in DOMAIN r /\ NumEq(Canon(flag, r[flag]), 1)

Profiled(r) ==
    \/ FlagTrue(r, "stage_metadata.cprofile")
    \/ FlagTrue(r, "stage_metadata.cuml_accel_profile")

RunIdsOf(rows) == {rows[i].run_id : i \in DOMAIN rows}

\* C16 (as stated): without --include-profiled, aggregate and speedup
\* exclude a timing row of the stage if and only if one of its two profiling
\* flags is present and true: when the command has read run rows, and so
\* comes to the profiling filter, the runs it goes on with are exactly the
\* runs of the rows with no true flag (flag column absent, cell null, or
\* flag false), and the number it reports as excluded is the number of rows
\* with a true flag.
C16_ExcludedIffProfiled ==
    (out.op \in ReadOps /\ ~out.include_profiled
        /\ ReadRuns(out.experiment) # <<>>) =>
        LET stored == StageTimings(out.experiment, out.stage_name)
        IN /\ RunIdsOf(out.stage) = RunIdsOf(SelectSeq(stored, LAMBDA r : ~Profiled(r)))
           /\ out.excluded = Len(SelectSeq(stored, Profiled))

\* The rows of the stage left after the profiling filter of the command that
\* wrote out.
KeptOf(stored) ==
    IF out.include_profiled THEN stored
    ELSE SelectSeq(stored, LAMBDA r : ~Profiled(r))

\* C17 (as stated): a timing row with an explicit num_gpus is grouped under
\* that value whatever device count its run reports, and the preprocessing,
\* inference included, hands on as many rows as the filters left.
C17_InferenceKeepsExplicit ==
    (out.op \in ReadOps /\ out.stage # <<>>) =>
        LET stored == StageTimings(out.experiment, out.stage_name)
        IN /\ \A i \in DOMAIN out.stage : \A j \in DOMAIN stored :
                  (/\ stored[j].run_id = out.stage[i].run_id
                   /\ "stage_metadata.num_gpus" \in DOMAIN stored[j])
                  => /\ ~IsNull(out.stage[i], "num_gpus")
                     /\ NumEq(out.stage[i].num_gpus, stored[j]["stage_metadata.num_gpus"])
           /\ Len(out.stage) = Len(KeptOf(stored))

\* C18 (as stated): with inference not disabled, a timing row that carries no
\* num_gpus is grouped under the cuda.cuda_device_count of its run, also
\* when no stored row carries num_gpus.
C18_MissingCountInferred ==
    (out.op \in ReadOps /\ ~out.no_infer_gpu_count) =>
        LET stored == StageTimings(out.experiment, out.stage_name)
            runs == ReadRuns(out.experiment)
        IN \A i \in DOMAIN out.stage : \A j \in DOMAIN stored : \A k \in DOMAIN runs :
               (/\ stored[j].run_id = out.stage[i].run_id
                /\ runs[k].run_id = out.stage[i].run_id
                /\ "stage_metadata.num_gpus" \notin DOMAIN stored[j]
                /\ "cuda.cuda_device_count" \in DOMAIN runs[k])
               => /\ ~IsNull(out.stage[i], "num_gpus")
                  /\ NumEq(out.stage[i].num_gpus, runs[k]["cuda.cuda_device_count"])

\* C19: no row of the speedup output has num_gpus = 0, the baseline group.
C19_NoBaselineRow ==
    out.op = "speedup" =>
        \A i \in DOMAIN out.rows :
            IsNull(out.rows[i], "num_gpus") \/ ~NumEq(out.rows[i].num_gpus, 0)

\* speedup printed rows, and the groups it computed them from had a baseline
\* group.
C19_Witness ==
    /\ out.op = "speedup"
    /\ out.rows # <<>>
    /\ \E g \in DOMAIN out.agg : IsBaselineGroup(out.agg[g])

\* C20 (as stated): a run row whose results payload has not the expected
\* shape is skipped, and aggregate and speedup complete over the other rows:
\* neither ends in an exception.
C20_MalformedSkipped ==
    (/\ out.op \in ReadOps
     /\ \E k \in DOMAIN ReadRuns(out.experiment) :
            LET payload == ReadRuns(out.experiment)[k].results_json.json
            IN "time_train_s" \in DOMAIN payload /\ 0 \in DOMAIN payload.time_train_s)
    => ~out.raised

(***************************************************************************)
(* Further properties of the timer.                                        *)
(***************************************************************************)
\* C25: nested time() scopes are independent. Leaving a scope appends one
\* record, for the innermost open scope, with the time since that scope was
\* entered; the records already made are left as they are and the enclosing
\* scopes stay open, so the record of an inner scope precedes the record of
\* the scope around it; and the record is at least as long as every record
\* of a scope entered since this one was.
C25_NestedScopesIndependent ==
    [][TimeExit =>
          LET frame == scopes[Len(scopes)]
              rec == timer'.timings[Len(timer'.timings)]
          IN /\ Len(timer'.timings) = Len(timer.timings) + 1
             /\ SubSeq(timer'.timings, 1, Len(timer.timings)) = timer.timings
             /\ rec.stage = frame.stage
             /\ rec.time_ns = clock - frame.start
             /\ scopes' = SubSeq(scopes, 1, Len(scopes) - 1)
             /\ \A j \in DOMAIN timer.timings :
                    timer.timings[j].timestamp - timer.timings[j].time_ns >= frame.start
                    => rec.time_ns >= timer.timings[j].time_ns]_vars

\* Scope A entered at 0, scope B entered inside it at 1 and left at 2, then A
\* left at 2: B's record of 1 unit is followed by A's record of 2 units.
C25_Witness ==
    /\ out.op = "time_exit"
    /\ scopes = <<>>
    /\ Len(timer.timings) = 2
    /\ timer.timings[1].time_ns = 1
    /\ timer.timings[1].timestamp - timer.timings[1].time_ns = 1
    /\ timer.timings[2].time_ns = 2
    /\ timer.timings[2].timestamp = 2
    /\ timer.timings[1].stage # "total"
    /\ timer.timings[2].stage # "total"

\* The number of "total" records among rows.
Totals(rows) == Len(SelectSeq(rows, LAMBDA r : r.stage = "total"))

\* C26 (as stated): whatever operations were made on a timer, its records
\* hold at most one "total" record, and so do the rows stored for its run_id
\* in benchmark_timings.
C26_AtMostOneTotal ==
    /\ Totals(timer.timings) <= 1
    /\ \A id \in StoredRunIds(db) :
           Totals(SelectSeq(RowsOfTable(db, "benchmark_timings"),
                            LAMBDA r : r.run_id = id)) <= 1

\* C29 (as stated): the total_time_s and total_time_ms of the summary row a
\* save_experiment_results call stores are those of the "total" record that
\* the record_total_time call of this save appended, whatever records the
\* timer held before.
C29_SummaryTotalIsThisSave ==
    [][(out'.op = "save_experiment_results" /\ ~out'.raised) =>
           LET runs == RowsOfTable(db', "benchmark_runs")
               row == runs[Len(runs)]
               total == timer'.timings[Len(timer'.timings)]
           IN /\ row.run_id = timer'.run_id
              /\ total.stage = "total"
              /\ row.total_time_s = total.time_s
              /\ row.total_time_ms = total.time_ms]_vars

(***************************************************************************)
(* Further properties of aggregate and speedup.                            *)
(***************************************************************************)
\* A run whose results hold training times in the expected shape, a dict
\* keyed by the row index with at least one entry.
Usable(run) ==
    /\ ~IsNull(run, "results_json")
    /\ "time_train_s" \in DOMAIN run.results_json.json
    /\ run.results_json.json.time_train_s # <<>>
    /\ ~IsList(run.results_json.json.time_train_s)

\* The accelerator counts of the model_fit rows read for run that the
\* profiling filter leaves: the explicit num_gpus where there is one, else,
\* unless inference is disabled, the device count of the run.
CountsOf(run) ==
    LET kept == KeptOf(StageTimings(out.experiment, "model_fit"))
        mine == SelectSeq(kept, LAMBDA r : r.run_id = run.run_id)
    IN {IF "stage_metadata.num_gpus" \in DOMAIN mine[i]
        THEN <<mine[i]["stage_metadata.num_gpus"]>>
        ELSE IF ~out.no_infer_gpu_count /\ "cuda.cuda_device_count" \in DOMAIN run
        THEN <<run["cuda.cuda_device_count"]>>
        ELSE <<>> : i \in DOMAIN mine}

\* The runs speedup can take a baseline from and the runs it can compare
\* with one: usable results and a kept model_fit row, with count 0 and with
\* another count or none.
BaselineRuns ==
    SelectSeq(ReadRuns(out.experiment),
              LAMBDA run : Usable(run)
                           /\ \E n \in CountsOf(run) : n # <<>> /\ NumEq(n[1], 0))

ComparisonRuns ==
    SelectSeq(ReadRuns(out.experiment),
              LAMBDA run : Usable(run)
                           /\ \E n \in CountsOf(run) : n = <<>> \/ ~NumEq(n[1], 0))

\* C21 (as stated): when nothing is left to aggregate, aggregate and speedup
\* end with a message and no table, without raising: so it is when no run
\* or no timing row is read, when no row of the stage is left by the
\* profiling filter and, in speedup, when no run has usable results, when
\* there is no baseline (no run with usable results and num_gpus 0) and when
\* there is no run to compare with it; a command that did not raise prints
\* a message exactly when it prints no rows; and speedup prints rows only
\* when the groups hold a baseline group and a group to compare with it.
C21_NoDataIsReported ==
    out.op \in ReadOps =>
        /\ (\/ ReadRuns(out.experiment) = <<>>
            \/ KeptOf(StageTimings(out.experiment, out.stage_name)) = <<>>
            \/ out.op = "speedup" /\ (BaselineRuns = <<>> \/ ComparisonRuns = <<>>))
           => (out.msg # "" /\ out.rows = <<>> /\ ~out.raised)
        /\ ~out.raised => (out.rows = <<>> <=> out.msg # "")
        /\ (out.op = "speedup" /\ out.rows # <<>>)
           => /\ \E g \in DOMAIN out.agg : IsBaselineGroup(out.agg[g])
              /\ \E g \in DOMAIN out.agg : ~IsBaselineGroup(out.agg[g])

\* The same with the exception left aside: a command that did not raise
\* reports every one of these cases with a message and no rows.
NoDataIsReportedUnlessRaised ==
    (/\ out.op \in ReadOps
     /\ ~out.raised
     /\ \/ ReadRuns(out.experiment) = <<>>
        \/ KeptOf(StageTimings(out.experiment, out.stage_name)) = <<>>
        \/ out.op = "speedup" /\ (BaselineRuns = <<>> \/ ComparisonRuns = <<>>))
    => (out.msg # "" /\ out.rows = <<>>)

RECURSIVE SumCounts(_)
SumCounts(rows) ==
    IF rows = <<>> THEN 0 ELSE Head(rows).count + SumCounts(Tail(rows))

\* C30 (as stated): in aggregate every timing row of the stage that the
\* filters leave is counted once in its group, however many entries the
\* results payload of its run holds: the counts of the groups add up to the
\* number of these rows, and when they form one group its median stage time
\* is the median over these rows.
C30_TimingRowCountsOnce ==
    (out.op = "aggregate" /\ ~out.raised /\ out.rows # <<>>) =>
        LET kept == KeptOf(StageTimings(out.experiment, out.stage_name))
        IN /\ SumCounts(out.rows) = Len(kept)
           /\ Len(out.rows) = 1
              => out.rows[1][out.stage_name \o "_time_s"]
                     = Median([i \in DOMAIN kept |-> kept[i].time_s])

\* C24 (as stated): the rows aggregate and speedup print are in ascending
\* order of datasets and, within one dataset, of num_gpus (null last), with
\* no two rows for the same (datasets, num_gpus).
C24_SortedByDatasetThenNumGpus ==
    (out.op \in ReadOps \cup {"sort_values"}) =>
        \A i, j \in DOMAIN out.rows :
            i < j => /\ ~KeyLess(out.rows[j], out.rows[i])
                     /\ GroupKey(out.rows[i]) # GroupKey(out.rows[j])

(***************************************************************************)
(* Properties of the metadata collection.                                  *)
(***************************************************************************)
\* The calls each category of metadata depends on, the keys that explain a
\* failure of the category, and a key the category always provides.
CategoryCalls ==
    [system |-> {"psutil"}, user |-> {"getpass.getuser"}, cuda |-> {"numba.cuda"},
     python |-> {"pip freeze"}, git |-> {"git.Repo"}]

ErrorFields ==
    [system |-> {"system.system_error", "system.error"},
     user |-> {"system.user_error", "system.system_error"},
     cuda |-> {"cuda.cuda_error"},
     python |-> {"python.pip_freeze_error", "python.python_error", "python.pip_error"},
     git |-> {"git.git_error"}]

CategoryKey ==
    [system |-> "system.hostname", user |-> "system.user", cuda |-> "cuda.cuda_available",
     python |-> "python.python_version", git |-> "git.git_commit"]

\* The category failed: one of its calls fails (the user lookup fails when
\* getpass.getuser and its fallback os.getlogin both fail).
CategoryFailed(c, failing) ==
    /\ CategoryCalls[c] \cap failing # {}
    /\ c = "user" => "os.getlogin" \in failing

\* C22 (as stated): whichever calls into the environment fail, building a
\* timer raises nothing, the metadata holds the keys of every category, and
\* a category that failed has an error field explaining it.
C22_CollectionAlwaysSucceeds ==
    out.op = "BenchmarkTimer" =>
        /\ ~out.raised
        /\ \A c \in DOMAIN CategoryCalls :
               /\ CategoryKey[c] \in DOMAIN out.metadata
               /\ CategoryFailed(c, out.failing)
                  => ErrorFields[c] \cap DOMAIN out.metadata # {}

(***************************************************************************)
(* Properties of the migration.                                            *)
(***************************************************************************)
ExperimentIdCol == "stage_metadata.experiment_id"

\* C28: no statement of a migration pass changes anything but
\* stage_metadata.experiment_id cells that were null: the timings keep their
\* number and order, a row with an experiment_id keeps it, every other
\* column of every row is as before,
\* a cell it fills gets the identifier that stands in front of the dataset
\* name in that same row's experiment_name, and the summary rows are left
\* alone; a dry run changes nothing.
C28_MigrationByIdentifier ==
    [][((\E dry_run \in BOOLEAN : TableInfo(dry_run)) \/ MigrateStatement) =>
          LET old == RowsOfTable(db, "benchmark_timings")
              new == RowsOfTable(db', "benchmark_timings")
          IN /\ Len(new) = Len(old)
             /\ RowsOfTable(db', "benchmark_runs") = RowsOfTable(db, "benchmark_runs")
             /\ (procs["w2"].pc # "idle" /\ procs["w2"].dry_run) => db' = db
             /\ \A i \in DOMAIN old :
                    /\ Restrict(new[i], DOMAIN new[i] \ {ExperimentIdCol})
                           = Restrict(old[i], DOMAIN old[i] \ {ExperimentIdCol})
                    /\ ~IsNull(old[i], ExperimentIdCol)
                       => new[i] = old[i]
                    /\ (IsNull(old[i], ExperimentIdCol) /\ ~IsNull(new[i], ExperimentIdCol))
                       => \E tail \in DatasetTails :
                              old[i].experiment_name
                                  = new[i][ExperimentIdCol] \o "_" \o tail]_vars

\* A pass filled the cell of a row that follows a row with an experiment_id
\* of its own, which it kept.
C28_Witness ==
    /\ out.op = "migrate_experiment_ids"
    /\ ~out.dry_run
    /\ out.updates # <<>>
    /\ \E i, j \in DOMAIN RowsOfTable(db, "benchmark_timings") :
           /\ i < j
           /\ ~IsNull(db["benchmark_timings"].rows[i], ExperimentIdCol)
           /\ db["benchmark_timings"].rows[i][ExperimentIdCol] = "kept"
           /\ db["benchmark_timings"].rows[j].experiment_name = HexId \o "_credit-g"
           /\ ~IsNull(db["benchmark_timings"].rows[j], ExperimentIdCol)
           /\ db["benchmark_timings"].rows[j][ExperimentIdCol] = HexId

\* The frame a load returned holds the columns and the rows of frame.
SameFrame(read, frame) ==
    /\ read.cols = frame.cols
    /\ Len(read.rows) = Len(frame.rows)
    /\ \A i \in DOMAIN read.rows : SameRow(read.rows[i], frame.rows[i])

\* The writer is between the SELECT of the recovery and the end of its INSERT.
InRewrite(p) == p.pc # "idle" /\ p.if_exists = "replace"

\* C23: a load_benchmark_runs() that runs while one writer (the only one in
\* an append) is inside the recovery, after its read of the table and before
\* the end of its rewrite, either fails explicitly or returns the table as
\* it was before the recovery or as it is after it, never anything else
\* (such as an empty frame).
C23_LoadSeesBeforeOrAfter ==
    (out.op = "load_benchmark_runs" /\ "procs" \in DOMAIN out)
    => \A w \in Writers :
           (/\ InRewrite(out.procs[w])
            /\ ~out.procs[w].overlapped
            /\ \A v \in Writers \ {w} : out.procs[v].pc = "idle")
           => \/ out.raised
              \/ SameFrame(out.df, out.procs[w].df_existing)
              \/ SameFrame(out.df, out.procs[w].df)

\* Some append overlapped another one: it was called, or was executing,
\* while another writer was inside its own call.
Overlapped == \E w \in Writers : procs[w].overlapped
AllIdle == \A w \in Writers : procs[w].pc = "idle"

\* Every call that went on to df.to_sql stored its batch.
NoneRaised == TotalCalls(Writers) = Len(written[ConcTable])

\* A row written by a successful append is in no row of the table.
LostRows(t) ==
    {i \in DOMAIN AllRows(written[t]) :
        t \notin DOMAIN db
        \/ \A j \in DOMAIN db[t].rows : ~SameRow(db[t].rows[j], AllRows(written[t])[i])}

\* C27: when the appends of the two writers were serialized (none was called
\* or executing while another was inside its call) and each ran to its end
\* (none raised), then, once they have returned, the table has the union of
\* the columns and every row of every append, in order, each once (null
\* where it was written null, and its cells up to the conversions of the
\* storage): no appended row is lost.  (That rows are lost when appends
\* interleave is the state C27_Witness.)
C27_SerializedAppendsLoseNothing ==
    (AllIdle /\ ~Overlapped /\ NoneRaised)
    => IF written[ConcTable] = <<>>
       THEN ConcTable \notin DOMAIN db
       ELSE /\ ConcTable \in DOMAIN db
            /\ db[ConcTable].cols = AllCols(written[ConcTable])
            /\ Len(db[ConcTable].rows) = Len(AllRows(written[ConcTable]))
            /\ \A i \in DOMAIN db[ConcTable].rows :
                   SameRow(db[ConcTable].rows[i], AllRows(written[ConcTable])[i])
            /\ LostRows(ConcTable) = {}

\* Three appends succeeded, the second one between the read and the rewrite
\* of the third, which took the recovery; the writers have returned and the
\* row of the second append is not in the table, while those of the first
\* and the third are.
C27_Witness ==
    /\ AllIdle
    /\ Overlapped
    /\ NoneRaised
    /\ Len(written[ConcTable]) = 3
    /\ ConcTable \in DOMAIN db
    /\ LostRows(ConcTable) = {2}
    /\ ~(written[ConcTable][3].cols \subseteq written[ConcTable][1].cols)

====
